---- MODULE Spec2Model ----
(***************************************************************************)
(* frpy: the event cell (Stream), its clock-deferred update, combine, the  *)
(* tick helpers this_tick and next_tick (src/frpy/core.py) and the         *)
(* operators where, scan, merge, flatten and trace built on combine        *)
(* (src/frpy/unary.py, src/frpy/multiary.py).  A write to a self-clocked   *)
(* cell runs update() at once; a write to any other cell appends           *)
(* _once(update) to its clock's listener list, which the clock's own       *)
(* dispatch loop reaches later in the same pass.                           *)
(*                                                                         *)
(* Spec runs the programs of src/test/core_test.py and a combine over two  *)
(* siblings of one clock; SpecOps runs the doctests of the tick helpers    *)
(* and of the operators.  Both are single-threaded and none of their       *)
(* listeners writes to a cell that is its own clock, so a cell never has   *)
(* two update() activations on the stack and the list a loop iterates is   *)
(* the cell's current list.  SpecThreads runs sample/demo.py's tmain: a    *)
(* second thread appends to the clock's list while the clock thread runs   *)
(* its passes, with update()'s prune split into the building of the new    *)
(* list and its assignment.                                                *)
(*                                                                         *)
(* SpecTime runs the stateful operators over one source cell on a ticking  *)
(* clock (trace with stale eviction, repeat, sequence, diff, changed,      *)
(* window; src/frpy/unary.py, src/frpy/producer.py and their older forms   *)
(* in src/frpy/op.py); SpecTimely runs delay and timeout                   *)
(* (src/frpy/timely.py, src/frpy/op.py); SpecAsync runs fmap_async with    *)
(* the clock, the sends and the consumer task as callbacks of one event    *)
(* loop.  Clock ticks carry the counters 1, 2, ... of src/test/api_test.py *)
(* and time.time() is Epoch plus the number of external calls so far.      *)
(* In the scenarios timeout_wall and timeout_op_wall the clock is fed the  *)
(* wall time, as core.clock() does.  SpecLive is Spec with weak fairness   *)
(* on the steps of update(): a call in progress runs on until it returns.  *)
(***************************************************************************)
EXTENDS Integers, Sequences, FiniteSets, TLC

VARIABLES
    scn,        \* which client program is running
    pc,         \* index of the program's next construction statement
    clock,      \* cell -> its clock cell (NoCell: not constructed yet)
    value,      \* cell -> self.value
    trace,      \* cell -> whether self.trace is set
    listeners,  \* cell -> self.listeners, a list of callables
    stale,      \* ids of the _once wrappers whose g.stale is True
    footprint,  \* cell -> the values self.trace has been called with
    stack,      \* the call stack of update() activations
    writes,     \* history: every s(value) call made so far, by id
    stamp,      \* history: cell -> the external stimulus its value came from
    log,        \* history: the schedulings, runs, prints and exceptions so far
    feeder,     \* the second thread of demo.py's tmain: its position in a call
    pruned,     \* the list update()'s comprehension has built and not yet assigned
    gen,        \* cell -> how many times self.listeners was replaced by a new list
    buffer,     \* trace()'s closure dict: key -> sub-stream cell
    closure     \* the other closure variables of the operators (see NoClosure)

aux == <<log, feeder, pruned, gen, buffer, closure>>

vars == <<scn, pc, clock, value, trace, listeners, stale, footprint, stack, writes,
          stamp, aux>>

\* ---------------------------------------------------------------- bounds
MaxWrites == 3
MaxTicks == 3
MaxSends == 3

\* ------------------------------------------------------------- constants
None == -1
NoCell == "none"
Cells == {"clk", "s1", "s2", "s3", "s4", "s5"}

\* cells in a fixed order: a stream that is the value of an event is written
\* as Ref(cell), so that every value is an integer
CellSeq == <<"clk", "s1", "s2", "s3", "s4", "s5">>
Ref(c) == 1000 + (CHOOSE i \in DOMAIN CellSeq : CellSeq[i] = c)
Deref(v) == CellSeq[v - 1000]
IsRef(v) == v > 1000

\* the tuple (topic, value) that merge emits when topics are given
Pair(topic, v) == topic * 100 + v

\* a list of events as a value: its items as decimal digits, the oldest first
RECURSIVE ListVal(_)
ListVal(q) == IF q = <<>> THEN 0 ELSE ListVal(SubSeq(q, 1, Len(q) - 1)) * 10 + q[Len(q)]

\* the keys of trace()'s key_fn, and the cells its sub-streams are made from
Keys == {0, 1}
Pool == <<"s4", "s5", "s3">>
NoList == <<>>

\* time.time() when the program starts, far from the timestamps 1, 2, ... that
\* the tests write to their clocks
Epoch == 100

\* the closure variables before any operator is constructed.  ua: trace()'s
\* updated_at, (key, time) in insertion order; dq: delay's buffer of (time, value);
\* tb: timeout's buffer[0]; sb, it: sequence's buffer[0] and how many items next(it) has
\* returned; last: buffer[0] of diff and changed; win: window's deque;
\* q: fmap_async's queue; fed: the items a_src has yielded to the transform
NoClosure ==
    [ua |-> <<>>, dq |-> <<>>, tb |-> -1, sb |-> -1, it |-> 0,
     last |-> -1, win |-> <<>>, q |-> <<>>, fed |-> <<>>]

\* ------------------------------------------------------------- callables
\* lambda _, x: tgt(x + add)
Lambda(tgt, add) ==
    [kind |-> "lambda", id |-> 0, cell |-> tgt, val |-> add, fn |-> "", deps |-> <<>>]

\* combine's closure notify(src, value): s(fn(deps, s, src, value))
Notify(out, fn, add, deps) ==
    [kind |-> "notify", id |-> 0, cell |-> out, val |-> add, fn |-> fn, deps |-> deps]

\* _once(update), update closed over (self, value)
Once(id, c, v) ==
    [kind |-> "once", id |-> id, cell |-> c, val |-> v, fn |-> "", deps |-> <<>>]

\* lambda _, value: this_tick(ck, lambda: print(value)), or next_tick
Sched(fn, ck) ==
    [kind |-> "sched", id |-> 0, cell |-> ck, val |-> 0, fn |-> fn, deps |-> <<>>]

\* this_tick's _once(lambda *_: fn()) and next_tick's
\* _once(lambda *_: fn(), lambda _, value: value > now)
TickOnce(id, fn, now) ==
    [kind |-> "tick", id |-> id, cell |-> NoCell, val |-> now, fn |-> fn, deps |-> <<>>]

\* a listener that is a plain closure of an operator: on_t, on_s, ...; out is
\* the operator's result stream and t its time parameter
Closure(fn, out, t) ==
    [kind |-> "closure", id |-> 0, cell |-> out, val |-> t, fn |-> fn, deps |-> <<>>]

NoEntry == Lambda(NoCell, 0)
FeederIdle == [pc |-> "idle", cell |-> NoCell, ref |-> 0, f |-> NoEntry]

\* ------------------------------------------------------- client programs
ProgOrder ==
    << [op |-> "Stream", s |-> "clk", clock |-> NoCell, trace |-> FALSE],
       [op |-> "Stream", s |-> "s1", clock |-> "clk", trace |-> FALSE],
       [op |-> "Stream", s |-> "s2", clock |-> "clk", trace |-> FALSE],
       [op |-> "Stream", s |-> "s3", clock |-> "clk", trace |-> TRUE],
       [op |-> "append", s |-> "clk", f |-> Lambda("s1", 0)],
       [op |-> "append", s |-> "s1", f |-> Lambda("s2", 10)],
       [op |-> "append", s |-> "s1", f |-> Lambda("s3", 0)],
       [op |-> "append", s |-> "s2", f |-> Lambda("s3", 0)] >>

ProgDeps ==
    << [op |-> "Stream", s |-> "s1", clock |-> NoCell, trace |-> FALSE],
       [op |-> "Stream", s |-> "s2", clock |-> NoCell, trace |-> FALSE],
       [op |-> "combine", s |-> "s3", fn |-> "sum_upstreams", add |-> 0,
        deps |-> <<"s1", "s2">>],
       [op |-> "trace", s |-> "s3"] >>

ProgSiblings ==
    << [op |-> "Stream", s |-> "clk", clock |-> NoCell, trace |-> TRUE],
       [op |-> "combine", s |-> "s1", fn |-> "fmap", add |-> 3, deps |-> <<"clk">>],
       [op |-> "combine", s |-> "s2", fn |-> "fmap", add |-> 10, deps |-> <<"clk">>],
       [op |-> "combine", s |-> "s3", fn |-> "sum_upstreams", add |-> 0,
        deps |-> <<"s1", "s2">>],
       [op |-> "trace", s |-> "s3"] >>

\* sample/demo.py, tmain: clk, tick = clock(); s = Stream(clk); each(print, s)
ProgTmain ==
    << [op |-> "Stream", s |-> "clk", clock |-> NoCell, trace |-> FALSE],
       [op |-> "Stream", s |-> "s1", clock |-> "clk", trace |-> FALSE],
       [op |-> "combine", s |-> "s2", fn |-> "each_print", add |-> 0, deps |-> <<"s1">>] >>

\* the doctests of this_tick and next_tick: a callback that schedules a print,
\* on a clock that also feeds a derived cell whose listener schedules too
ProgTicks ==
    << [op |-> "Stream", s |-> "clk", clock |-> NoCell, trace |-> FALSE],
       [op |-> "Stream", s |-> "s1", clock |-> "clk", trace |-> TRUE],
       [op |-> "append", s |-> "clk", f |-> Lambda("s1", 0)],
       [op |-> "listen", s |-> "clk", f |-> Sched("this_tick", "clk")],
       [op |-> "listen", s |-> "clk", f |-> Sched("next_tick", "clk")],
       [op |-> "listen", s |-> "s1", f |-> Sched("this_tick", "clk")],
       [op |-> "listen", s |-> "s1", f |-> Sched("next_tick", "clk")] >>

\* s1 = fmap(lambda x: x + 3, clk); s2 = fmap(lambda x: 1 // (x - 2), clk)
ProgRaise ==
    << [op |-> "Stream", s |-> "clk", clock |-> NoCell, trace |-> FALSE],
       [op |-> "combine", s |-> "s1", fn |-> "fmap", add |-> 3, deps |-> <<"clk">>],
       [op |-> "trace", s |-> "s1"],
       [op |-> "combine", s |-> "s2", fn |-> "inverse", add |-> 2, deps |-> <<"clk">>] >>

\* where's doctest: src = Stream(None); s = where(lambda x: x % 2 == 0, src)
ProgWhere ==
    << [op |-> "Stream", s |-> "s1", clock |-> NoCell, trace |-> FALSE],
       [op |-> "combine", s |-> "s2", fn |-> "where", add |-> 0, deps |-> <<"s1">>],
       [op |-> "trace", s |-> "s2"] >>

\* s2 = scan(lambda acc, x: acc + x, 10, s1), s1 on a clock
ProgScan ==
    << [op |-> "Stream", s |-> "clk", clock |-> NoCell, trace |-> FALSE],
       [op |-> "Stream", s |-> "s1", clock |-> "clk", trace |-> TRUE],
       [op |-> "combine", s |-> "s2", fn |-> "scan", add |-> 10, deps |-> <<"s1">>],
       [op |-> "trace", s |-> "s2"] >>

\* test_merge_topic: s3 = merge([s1, s2], topics) over sources made with Stream(None)
ProgMerge ==
    << [op |-> "Stream", s |-> "s1", clock |-> NoCell, trace |-> FALSE],
       [op |-> "Stream", s |-> "s2", clock |-> NoCell, trace |-> FALSE],
       [op |-> "combine", s |-> "s3", fn |-> "merge", add |-> 0, deps |-> <<"s1", "s2">>],
       [op |-> "trace", s |-> "s3"] >>

\* flatten's doctest: s4 = flatten(s3), the inner streams s1 and s2 and the
\* stream of streams s3 made with Stream(None); s5 is the output of each()
ProgFlatten ==
    << [op |-> "Stream", s |-> "s1", clock |-> NoCell, trace |-> FALSE],
       [op |-> "Stream", s |-> "s2", clock |-> NoCell, trace |-> FALSE],
       [op |-> "Stream", s |-> "s3", clock |-> NoCell, trace |-> FALSE],
       [op |-> "Stream", s |-> "s4", clock |-> "s3", trace |-> FALSE],
       [op |-> "combine", s |-> "s5", fn |-> "on_new_substream", add |-> Ref("s4"),
        deps |-> <<"s3">>],
       [op |-> "trace", s |-> "s4"] >>

\* trace's doctest: s2 = trace(key_fn, 100, s1), no key going stale
ProgTrace ==
    << [op |-> "Stream", s |-> "s1", clock |-> NoCell, trace |-> FALSE],
       [op |-> "combine", s |-> "s2", fn |-> "trace", add |-> 100, deps |-> <<"s1">>],
       [op |-> "trace", s |-> "s2"] >>

\* test_trace_stale: s2 = trace(key_fn, 0, s1) over a source made with
\* Stream(None), with unary.py's trace and with op.py's
ProgStale ==
    << [op |-> "Stream", s |-> "s1", clock |-> NoCell, trace |-> FALSE],
       [op |-> "combine", s |-> "s2", fn |-> "trace", add |-> 0, deps |-> <<"s1">>],
       [op |-> "trace", s |-> "s2"] >>

ProgStaleOp ==
    << [op |-> "Stream", s |-> "s1", clock |-> NoCell, trace |-> FALSE],
       [op |-> "combine", s |-> "s2", fn |-> "trace_op", add |-> 0, deps |-> <<"s1">>],
       [op |-> "trace", s |-> "s2"] >>

\* delay's doctest: clk = Stream(None); src = Stream(clk); s = delay(t, src),
\* with t = 2 and with t = 0
ProgDelay ==
    << [op |-> "Stream", s |-> "clk", clock |-> NoCell, trace |-> FALSE],
       [op |-> "Stream", s |-> "s1", clock |-> "clk", trace |-> FALSE],
       [op |-> "delay", s |-> "s2", t |-> 2, src |-> "s1"],
       [op |-> "trace", s |-> "s2"] >>

ProgDelay0 ==
    << [op |-> "Stream", s |-> "clk", clock |-> NoCell, trace |-> FALSE],
       [op |-> "Stream", s |-> "s1", clock |-> "clk", trace |-> FALSE],
       [op |-> "delay", s |-> "s2", t |-> 0, src |-> "s1"],
       [op |-> "trace", s |-> "s2"] >>

\* timeout's doctest: requests = Stream(clk); responds = Stream(clk);
\* s = timeout(t, responds, requests), with timely.py's timeout and with op.py's
ProgTimeout ==
    << [op |-> "Stream", s |-> "clk", clock |-> NoCell, trace |-> FALSE],
       [op |-> "Stream", s |-> "s1", clock |-> "clk", trace |-> FALSE],
       [op |-> "Stream", s |-> "s3", clock |-> "clk", trace |-> FALSE],
       [op |-> "timeout", s |-> "s2", t |-> 1, responds |-> "s3", src |-> "s1",
        on_s |-> "timeout_on_s"],
       [op |-> "trace", s |-> "s2"] >>

ProgTimeoutOp ==
    << [op |-> "Stream", s |-> "clk", clock |-> NoCell, trace |-> FALSE],
       [op |-> "Stream", s |-> "s1", clock |-> "clk", trace |-> FALSE],
       [op |-> "Stream", s |-> "s3", clock |-> "clk", trace |-> FALSE],
       [op |-> "timeout", s |-> "s2", t |-> 1, responds |-> "s3", src |-> "s1",
        on_s |-> "op_on_s"],
       [op |-> "trace", s |-> "s2"] >>

\* test_repeat_fraction, with a whole interval: s2 = repeat(2, clk)
ProgRepeat ==
    << [op |-> "Stream", s |-> "clk", clock |-> NoCell, trace |-> FALSE],
       [op |-> "combine", s |-> "s2", fn |-> "repeat", add |-> 2, deps |-> <<"clk">>],
       [op |-> "trace", s |-> "s2"] >>

\* test_sequence_ended: s2 = sequence(2, iter(range(42, 46, 2)), clk)
ProgSequence ==
    << [op |-> "Stream", s |-> "clk", clock |-> NoCell, trace |-> FALSE],
       [op |-> "combine", s |-> "s2", fn |-> "sequence", add |-> 2, deps |-> <<"clk">>],
       [op |-> "trace", s |-> "s2"] >>

\* test_diff and test_diff_no_init over a source on a clock:
\* s2 = diff(lambda x, y: y - x, init, s1), init = 0 and init = None
ProgDiff ==
    << [op |-> "Stream", s |-> "clk", clock |-> NoCell, trace |-> FALSE],
       [op |-> "Stream", s |-> "s1", clock |-> "clk", trace |-> FALSE],
       [op |-> "combine", s |-> "s2", fn |-> "diff", add |-> 0, deps |-> <<"s1">>],
       [op |-> "trace", s |-> "s2"] >>

ProgDiffNone ==
    << [op |-> "Stream", s |-> "clk", clock |-> NoCell, trace |-> FALSE],
       [op |-> "Stream", s |-> "s1", clock |-> "clk", trace |-> FALSE],
       [op |-> "combine", s |-> "s2", fn |-> "diff", add |-> None, deps |-> <<"s1">>],
       [op |-> "trace", s |-> "s2"] >>

\* changed's doctest over a source on a clock:
\* s2 = changed(lambda x, y: y - x <= 1, s1), with unary.py's changed and op.py's
ProgChanged ==
    << [op |-> "Stream", s |-> "clk", clock |-> NoCell, trace |-> FALSE],
       [op |-> "Stream", s |-> "s1", clock |-> "clk", trace |-> FALSE],
       [op |-> "combine", s |-> "s2", fn |-> "changed", add |-> 0, deps |-> <<"s1">>],
       [op |-> "trace", s |-> "s2"] >>

ProgChangedOp ==
    << [op |-> "Stream", s |-> "clk", clock |-> NoCell, trace |-> FALSE],
       [op |-> "Stream", s |-> "s1", clock |-> "clk", trace |-> FALSE],
       [op |-> "combine", s |-> "s2", fn |-> "changed_op", add |-> 0, deps |-> <<"s1">>],
       [op |-> "trace", s |-> "s2"] >>

\* window's doctest over a source on a clock: s2 = window(2, s1)
ProgWindow ==
    << [op |-> "Stream", s |-> "clk", clock |-> NoCell, trace |-> FALSE],
       [op |-> "Stream", s |-> "s1", clock |-> "clk", trace |-> FALSE],
       [op |-> "combine", s |-> "s2", fn |-> "window", add |-> 2, deps |-> <<"s1">>],
       [op |-> "trace", s |-> "s2"] >>

\* fmap_async's doctest and sample/demo.py's amain_stop:
\* s = Stream(clk); s1 = fmap_async(transform, s)
ProgAsync ==
    << [op |-> "Stream", s |-> "clk", clock |-> NoCell, trace |-> FALSE],
       [op |-> "Stream", s |-> "s1", clock |-> "clk", trace |-> FALSE],
       [op |-> "fmap_async", s |-> "s2", src |-> "s1"],
       [op |-> "trace", s |-> "s2"] >>

Scenarios == {"order", "deps", "siblings"}
OpScenarios == {"ticks", "raise", "where", "scan", "merge", "flatten", "trace"}

Prog(sc) ==
    CASE sc = "order" -> ProgOrder
      [] sc = "deps" -> ProgDeps
      [] sc = "siblings" -> ProgSiblings
      [] sc = "tmain" -> ProgTmain
      [] sc = "ticks" -> ProgTicks
      [] sc = "raise" -> ProgRaise
      [] sc = "where" -> ProgWhere
      [] sc = "scan" -> ProgScan
      [] sc = "merge" -> ProgMerge
      [] sc = "flatten" -> ProgFlatten
      [] sc = "trace" -> ProgTrace
      [] sc = "stale" -> ProgStale
      [] sc = "repeat" -> ProgRepeat
      [] sc = "sequence" -> ProgSequence
      [] sc = "diff" -> ProgDiff
      [] sc = "diff_none" -> ProgDiffNone
      [] sc = "changed" -> ProgChanged
      [] sc = "changed_op" -> ProgChangedOp
      [] sc = "window" -> ProgWindow
      [] sc = "async" -> ProgAsync
      [] sc = "delay" -> ProgDelay
      [] sc = "delay0" -> ProgDelay0
      [] sc = "timeout" -> ProgTimeout
      [] sc = "timeout_op" -> ProgTimeoutOp
      [] sc = "timeout_wall" -> ProgTimeout
      [] sc = "timeout_op_wall" -> ProgTimeoutOp
      [] sc = "stale_op" -> ProgStaleOp

Built == pc > Len(Prog(scn))
Stmt == Prog(scn)[pc]
Idle == stack = <<>>
Created == {c \in Cells : clock[c] # NoCell}

\* the cells whose events are streams, and the streams the program writes to them
StreamCells ==
    CASE scn = "flatten" -> {"s3"}
      [] scn = "trace" -> {"s2"}
      [] OTHER -> {}
InnerCells == IF scn = "flatten" THEN {"s1", "s2"} ELSE {}

\* ------------------------------------------------------- pure operators
Last(q) == q[Len(q)]
Top == stack[Len(stack)]

RECURSIVE SumSeq(_)
SumSeq(q) == IF q = <<>> THEN 0 ELSE Head(q) + SumSeq(Tail(q))

\* sum(dep() for dep in deps if dep() is not None)
sum_upstreams(val, deps) ==
    SumSeq(SelectSeq([i \in 1..Len(deps) |-> val[deps[i]]], LAMBDA x : x # None))

\* faulty variant: the interval is compared with a strict >
repeat_g_strict(f, val, v) ==
    IF val[f.cell] = None \/ v - val[f.cell] > f.val THEN v ELSE None

\* repeat's g: if this() is None or value - this() >= interval: return value
repeat_g(f, val, v) ==
    IF val[f.cell] = None \/ v - val[f.cell] >= f.val THEN v ELSE None

\* faulty variant: every combining function passes its event through
FnApply_pass(f, val, v) == v

\* the combining function fn(deps, s, src, value) of a notify closure
FnApply(f, val, v) ==
    CASE f.fn = "fmap" -> v + f.val
      [] f.fn = "sum_upstreams" -> sum_upstreams(val, f.deps)
      [] f.fn = "where" -> IF v % 2 = 0 THEN v ELSE None
      [] f.fn = "scan" -> IF val[f.cell] = None
                          THEN (IF f.val = None THEN v ELSE f.val + v)
                          ELSE val[f.cell] + v
      [] f.fn = "inverse" -> v
      [] f.fn = "repeat" -> repeat_g(f, val, v)
      [] OTHER -> None

\* the client's topics of merge, one per source
Topics == <<1, 2>>

\* ss.index(src)
Index(q, x) == CHOOSE i \in DOMAIN q : q[i] = x /\ \A j \in 1..(i - 1) : q[j] # x

\* the combining function 1 // (x - k) raises on x = k
Raises(f, v) == f.fn = "inverse" /\ v = f.val

\* getattr(f, 'stale', False)
IsStale(f, st) == f.id # 0 /\ f.id \in st

\* faulty variant: stale one-shot listeners are never removed
Prune_none(q, st) == q

\* self.listeners = [f for f in self.listeners if not getattr(f, 'stale', False)]
Prune(q, st) == SelectSeq(q, LAMBDA f : ~IsStale(f, st))

\* faulty variant: the default condition never lets the wrapped function run
once_cond_never(f, v) == FALSE

\* faulty variant: next_tick's condition is dropped, as in this_tick
once_cond_always(f, v) == TRUE

\* _once's cond: lambda *_: True, or next_tick's lambda _, value: value > now
once_cond(f, v) == IF f.fn = "next_tick" THEN v > f.val ELSE TRUE

\* faulty variant: every write runs update() at once (depth-first propagation)
IsRoot_always(ck, c) == TRUE

\* self.clock == self
IsRoot(ck, c) == ck[c] = c

\* faulty variant: update() never gets past the assignment of the value
NextPhase_stuck(p) == IF p = "trace" THEN "store" ELSE p

\* faulty variant: update() dispatches without storing the value
NextPhase_no_store(p) ==
    CASE p = "trace" -> "prune"
      [] p = "store" -> "prune"
      [] p = "prune" -> "loop"

\* the order of update()'s statements
NextPhase(p) ==
    CASE p = "trace" -> "store"
      [] p = "store" -> "prune"
      [] p = "prune" -> "loop"

\* a fresh activation of update() for cell c with the captured value v
Frame(c, v, id, once) ==
    [cell |-> c, val |-> v, phase |-> "trace", idx |-> 1, id |-> id, once |-> once,
     called |-> <<>>]

ExtCount(ws) == Cardinality({i \in DOMAIN ws : ws[i].ext})

\* The machine state a call works on: clocks, listener lists, write history, stack.
\* lg, sl, bf: the log, the stale marks, trace()'s dict; res, exc: the result of
\* the combining function just called and whether it raised
Machine ==
    [ck |-> clock, ls |-> listeners, ws |-> writes, st |-> stack,
     lg |-> log, sl |-> stale, bf |-> buffer, cs |-> closure, res |-> None,
     exc |-> FALSE]

\* the write that started the pass in progress (0: no pass)
PassOf(st) == IF st = <<>> THEN 0 ELSE st[1].id

LogRec(what, fn, id, pass, val, n) ==
    [what |-> what, fn |-> fn, id |-> id, pass |-> pass, val |-> val, n |-> n]

\* Stream.__call__(value): get when value is None; otherwise update() now when
\* the cell is its own clock, else clock.listeners.append(_once(update)).
\* par is the activation that makes the call (0: none), stim its external stimulus.
Stream_call(m, c, v, par, stim, ext) ==
    IF v = None THEN m
    ELSE LET id == Len(m.ws) + 1
             w == [cell |-> c, val |-> v, par |-> par,
                   stim |-> IF ext THEN id ELSE stim, ext |-> ext, ready |-> Built]
         IN IF IsRoot(m.ck, c)
            THEN [m EXCEPT !.ws = Append(@, w), !.st = Append(@, Frame(c, v, id, FALSE))]
            ELSE [m EXCEPT !.ws = Append(@, w),
                           !.ls[m.ck[c]] = Append(@, Once(id, c, v))]

\* faulty variant: every key is given the same sub-stream
FreshCell_first(ck) == Pool[1]

\* the client's key_fn of trace
key_fn(v) == v % 2

\* the first cell of the pool that is not constructed yet
FreshCell(ck) == Pool[CHOOSE i \in DOMAIN Pool :
                        ck[Pool[i]] = NoCell /\ \A j \in 1..(i - 1) : ck[Pool[j]] # NoCell]

\* time.time(): the wall clock advances with every call the program makes
WallTime(ws) == Epoch + ExtCount(ws)

\* updated_at[key] = t: a known key keeps its place in the dict's order
SetAt(ua, key, t) ==
    IF \E i \in DOMAIN ua : ua[i].k = key
    THEN [i \in DOMAIN ua |-> IF ua[i].k = key THEN [k |-> key, t |-> t] ELSE ua[i]]
    ELSE Append(ua, [k |-> key, t |-> t])

\* time.time() - t > stale
IsOld(t, now, staleAfter) == now - t > staleAfter

\* for k, t in list(updated_at.items()): if time.time() - t > stale:
\*     del buffer[k]; del updated_at[k]
Evict(m, staleAfter) ==
    LET now == WallTime(m.ws)
        old == {m.cs.ua[i].k : i \in {j \in DOMAIN m.cs.ua : IsOld(m.cs.ua[j].t, now, staleAfter)}}
    IN [m EXCEPT !.bf = [k \in Keys |-> IF k \in old THEN NoCell ELSE m.bf[k]],
                 !.cs.ua = SelectSeq(@, LAMBDA e : e.k \notin old)]

\* op.py: for k, t in updated_at.items(): if time.time() - t > stale:
\*     del buffer[key]; del updated_at[key]
\* The first stale entry deletes the event's own key: KeyError when the key is
\* not in the dict, and otherwise the dict has changed size when the iteration
\* goes on (RuntimeError)
Evict_op(m, f, v, staleAfter) ==
    LET now == WallTime(m.ws)
        key == v % 2
    IN IF \E i \in DOMAIN m.cs.ua : IsOld(m.cs.ua[i].t, now, staleAfter)
       THEN [m EXCEPT !.exc = TRUE,
                      !.bf[key] = NoCell,
                      !.cs.ua = SelectSeq(@, LAMBDA e : e.k # key),
                      !.lg = Append(@, LogRec("raise", f.fn, 0, PassOf(m.st), v, Len(m.ws)))]
       ELSE m

\* trace()'s g after the eviction of stale keys: a new key makes a sub-stream
\* on the source's clock, writes the event to it and returns it; a known key
\* writes the event to its sub-stream and returns None
trace_lookup(m, f, v, par, stim) ==
    LET key == key_fn(v)
        now == WallTime(m.ws)
    IN IF m.bf[key] = NoCell
       THEN LET sub == FreshCell(m.ck)
                m1 == [m EXCEPT !.ck[sub] = m.ck[f.deps[1]], !.bf[key] = sub,
                                !.cs.ua = SetAt(@, key, now)]
            IN [Stream_call(m1, sub, v, par, stim, FALSE) EXCEPT !.res = Ref(sub)]
       ELSE [Stream_call(m, m.bf[key], v, par, stim, FALSE) EXCEPT
                !.res = None, !.cs.ua = SetAt(@, key, now)]

\* trace()'s g: f.val is the parameter stale
trace_g(m, f, v, par, stim) ==
    LET m1 == IF f.fn = "trace_op" THEN Evict_op(m, f, v, f.val) ELSE Evict(m, f.val)
    IN IF m1.exc THEN m1 ELSE trace_lookup(m1, f, v, par, stim)

\* the items of the iterator given to sequence: iter(range(42, 46, 2))
Items == <<42, 44>>

\* faulty variant: the StopIteration of an exhausted iterator is not caught
sequence_g_raise(m, f, v) ==
    IF m.cs.sb = None \/ v - m.cs.sb >= f.val
    THEN IF m.cs.it < Len(Items)
         THEN [m EXCEPT !.cs.sb = v, !.cs.it = @ + 1, !.res = Items[m.cs.it + 1]]
         ELSE [m EXCEPT !.cs.sb = v, !.exc = TRUE,
                        !.lg = Append(@, LogRec("raise", f.fn, 0, PassOf(m.st), v, Len(m.ws)))]
    ELSE [m EXCEPT !.res = None]

\* sequence's g: if buffer[0] is None or value - buffer[0] >= interval:
\*     try: buffer[0] = value; return next(it)  except StopIteration: pass
sequence_g(m, f, v) ==
    IF m.cs.sb = None \/ v - m.cs.sb >= f.val
    THEN IF m.cs.it < Len(Items)
         THEN [m EXCEPT !.cs.sb = v, !.cs.it = @ + 1, !.res = Items[m.cs.it + 1]]
         ELSE [m EXCEPT !.cs.sb = v, !.res = None]
    ELSE [m EXCEPT !.res = None]

\* diff's g, fn being lambda x, y: y - x and f.val the parameter init:
\* last = buffer[0]; buffer[0] = value;
\* if init is None and this() is None: return value   else: return fn(last, value)
diff_g(m, f, v) ==
    [m EXCEPT !.cs.last = v,
              !.res = IF f.val = None /\ value[f.cell] = None THEN v ELSE v - m.cs.last]

\* the client's eq_fn of changed: lambda x, y: y - x <= 1
eq_fn(x, y) == y - x <= 1

\* changed's g: last = buffer[0]; current = value; buffer[0] = current;
\* if last is None or not eq_fn(last, current): return current
changed_g(m, f, v) ==
    [m EXCEPT !.cs.last = v,
              !.res = IF m.cs.last = None \/ ~eq_fn(m.cs.last, v) THEN v ELSE None]

\* op.py's g: ... if not eq_fn(last, current): return current.  eq_fn(None, y)
\* computes y - None: TypeError
changed_op_g(m, f, v) ==
    IF m.cs.last = None
    THEN [m EXCEPT !.cs.last = v, !.exc = TRUE,
                   !.lg = Append(@, LogRec("raise", f.fn, 0, PassOf(m.st), v, Len(m.ws)))]
    ELSE [m EXCEPT !.cs.last = v, !.res = IF ~eq_fn(m.cs.last, v) THEN v ELSE None]

\* the last n items of q
LastN(q, n) == IF Len(q) <= n THEN q ELSE SubSeq(q, Len(q) - n + 1, Len(q))

\* faulty variant: the deque has no maxlen
window_g_unbounded(m, f, v) ==
    [m EXCEPT !.cs.win = Append(@, v), !.res = ListVal(Append(m.cs.win, v))]

\* window's g on buffer = deque(maxlen=n), f.val being n:
\* buffer.append(value); return list(buffer)
window_g(m, f, v) ==
    [m EXCEPT !.cs.win = LastN(Append(@, v), f.val),
              !.res = ListVal(LastN(Append(m.cs.win, v), f.val))]

\* the closure variables an operator sets before it calls combine(g, [s]):
\* sequence's buffer = [clock()], diff's buffer = [init], changed's buffer = [None]
closure_new(cs, fn, init, dep) ==
    CASE fn = "sequence" -> [cs EXCEPT !.sb = value[dep], !.it = 0]
      [] fn = "diff" -> [cs EXCEPT !.last = init]
      [] fn \in {"changed", "changed_op"} -> [cs EXCEPT !.last = None]
      [] fn = "window" -> [cs EXCEPT !.win = <<>>]
      [] OTHER -> cs

\* fn(deps, s, src, value) of a notify closure, with its side effects
fn_call(m, f, src, v, par, stim) ==
    CASE Raises(f, v) ->
           [m EXCEPT !.exc = TRUE,
                     !.lg = Append(@, LogRec("raise", f.fn, 0, PassOf(m.st), v, Len(m.ws)))]
      [] f.fn = "merge" -> [m EXCEPT !.res = Pair(Topics[Index(f.deps, src)], v)]
      [] f.fn = "each_print" ->
           [m EXCEPT !.res = None,
                     !.lg = Append(@, LogRec("print", f.fn, 0, PassOf(m.st), v, 0))]
      [] f.fn = "on_new_substream" ->
           [m EXCEPT !.res = None,
                     !.ls[Deref(v)] = Append(@, Lambda(Deref(f.val), 0))]
      [] f.fn \in {"trace", "trace_op"} -> trace_g(m, f, v, par, stim)
      [] f.fn = "sequence" -> sequence_g(m, f, v)
      [] f.fn = "diff" -> diff_g(m, f, v)
      [] f.fn = "window" -> window_g(m, f, v)
      [] f.fn = "changed" -> changed_g(m, f, v)
      [] f.fn = "changed_op" -> changed_op_g(m, f, v)
      [] OTHER -> [m EXCEPT !.res = FnApply(f, value, v)]

\* combine's notify(src, value): s(fn(deps, s, src, value)); an exception
\* unwinds every activation on the stack
notify(m, f, src, v, par, stim) ==
    LET r == fn_call(m, f, src, v, par, stim)
    IN IF r.exc THEN [r EXCEPT !.st = <<>>]
       ELSE Stream_call(r, f.cell, r.res, par, stim, FALSE)

\* this_tick(clock, fn) and next_tick(clock, fn): now = clock();
\* clock.listeners.append(_once(...)).  The log keeps now and the length of the
\* list the entry is appended to.
tick_call(m, fn, ck) ==
    LET id == 0 - (Len(m.lg) + 1)
    IN [m EXCEPT !.ls[ck] = Append(@, TickOnce(id, fn, value[ck])),
                 !.lg = Append(@, LogRec("sched", fn, id, PassOf(m.st), value[ck],
                                         Len(m.ls[ck])))]

\* _once's g for a scheduled function: if cond: fn(); g.stale = True
tick_run(m, f, v, n) ==
    IF once_cond(f, v)
    THEN [m EXCEPT !.sl = @ \cup {f.id},
                   !.lg = Append(@, LogRec("run", f.fn, f.id, PassOf(m.st), v, n))]
    ELSE m

\* buffer.remove(item): the first equal item goes
RECURSIVE RemoveFirst(_, _)
RemoveFirst(q, x) ==
    IF q = <<>> THEN q
    ELSE IF Head(q) = x THEN Tail(q) ELSE <<Head(q)>> \o RemoveFirst(Tail(q), x)

\* delay's on_t: for item in list(buffer): v_t, v = item;
\*     if now - v_t >= t: res(v_t); buffer.remove(item)
RECURSIVE on_t(_, _, _, _, _, _)
on_t(m, f, items, now, par, stim) ==
    IF items = <<>> THEN m
    ELSE LET item == Head(items)
             m1 == IF now - item.t >= f.val
                   THEN [Stream_call(m, f.cell, item.t, par, stim, FALSE) EXCEPT
                            !.cs.dq = RemoveFirst(@, item)]
                   ELSE m
         IN on_t(m1, f, Tail(items), now, par, stim)

\* timeout's on_clock: if buffer[0] is not None and res.clock() - buffer[0] > t:
\*     res(res.clock()); buffer[0] = None
on_clock(m, f, par, stim) ==
    LET now == value[m.ck[f.cell]]
    IN IF m.cs.tb # None /\ now - m.cs.tb > f.val
       THEN [Stream_call(m, f.cell, now, par, stim, FALSE) EXCEPT !.cs.tb = None]
       ELSE m

\* the call f(self, value) of a listener that is a closure of an operator.
\* timeout's on_s stores res.clock() in timely.py and time.time() in op.py;
\* q_put is fmap_async's notify: q.put_nowait(value)
closure_call(m, f, src, v, par, stim) ==
    CASE f.fn = "on_t" -> on_t(m, f, m.cs.dq, v, par, stim)
      [] f.fn = "on_s" -> [m EXCEPT !.cs.dq = Append(@, [t |-> value[m.ck[f.cell]], v |-> v])]
      [] f.fn = "timeout_on_s" -> [m EXCEPT !.cs.tb = value[m.ck[f.cell]]]
      [] f.fn = "op_on_s" -> [m EXCEPT !.cs.tb = WallTime(m.ws)]
      [] f.fn = "on_respond" -> [m EXCEPT !.cs.tb = None]
      [] f.fn = "on_clock" -> on_clock(m, f, par, stim)
      [] f.fn = "q_put" -> [m EXCEPT !.cs.q = Append(@, v)]

\* for dep in deps: if dep() is not None: notify(dep, dep()); dep.listeners.append(notify)
RECURSIVE CombineLoop(_, _, _)
CombineLoop(m, n, i) ==
    IF i > Len(n.deps) THEN m
    ELSE LET dep == n.deps[i]
             m1 == IF value[dep] # None
                   THEN notify(m, n, dep, value[dep], 0, 0)
                   ELSE m
         IN CombineLoop([m1 EXCEPT !.ls[dep] = Append(@, n)], n, i + 1)

\* ------------------------------------------------------------------ Init
Start ==
    /\ pc = 1
    /\ clock = [c \in Cells |-> NoCell]
    /\ value = [c \in Cells |-> None]
    /\ trace = [c \in Cells |-> FALSE]
    /\ listeners = [c \in Cells |-> <<>>]
    /\ stale = {}
    /\ footprint = [c \in Cells |-> <<>>]
    /\ stack = <<>>
    /\ writes = <<>>
    /\ stamp = [c \in Cells |-> 0]
    /\ log = <<>>
    /\ feeder = FeederIdle
    /\ pruned = NoList
    /\ gen = [c \in Cells |-> 0]
    /\ buffer = [k \in Keys |-> NoCell]
    /\ closure = NoClosure

Init == scn \in Scenarios /\ Start

\* ------------------------------------------------- construction statements
\* Stream.__init__(clock, trace)
Stream_init ==
    /\ Idle /\ ~Built /\ Stmt.op = "Stream"
    /\ clock' = [clock EXCEPT ![Stmt.s] = IF Stmt.clock = NoCell THEN Stmt.s ELSE Stmt.clock]
    /\ value' = [value EXCEPT ![Stmt.s] = None]
    /\ listeners' = [listeners EXCEPT ![Stmt.s] = <<>>]
    /\ trace' = [trace EXCEPT ![Stmt.s] = Stmt.trace]
    /\ pc' = pc + 1
    /\ UNCHANGED <<scn, stale, footprint, stack, writes, stamp, aux>>

\* s.listeners.append(lambda _, x: tgt(x + add))
listeners_append ==
    /\ Idle /\ ~Built /\ Stmt.op = "append"
    /\ listeners' = [listeners EXCEPT ![Stmt.s] = Append(@, Stmt.f)]
    /\ pc' = pc + 1
    /\ UNCHANGED <<scn, clock, value, trace, stale, footprint, stack, writes, stamp, aux>>

\* s.trace = ...
set_trace ==
    /\ Idle /\ ~Built /\ Stmt.op = "trace"
    /\ trace' = [trace EXCEPT ![Stmt.s] = TRUE]
    /\ pc' = pc + 1
    /\ UNCHANGED <<scn, clock, value, listeners, stale, footprint, stack, writes, stamp, aux>>

\* combine(fn, deps)
combine ==
    /\ Idle /\ ~Built /\ Stmt.op = "combine"
    /\ LET n == Notify(Stmt.s, Stmt.fn, Stmt.add, Stmt.deps)
           m0 == [Machine EXCEPT
                    !.ck[Stmt.s] = clock[Stmt.deps[1]],
                    !.cs = closure_new(@, Stmt.fn, Stmt.add, Stmt.deps[1])]
           m == CombineLoop(m0, n, 1)
       IN /\ ~m.exc
          /\ clock' = m.ck
          /\ listeners' = m.ls
          /\ writes' = m.ws
          /\ stack' = m.st
          /\ log' = m.lg
          /\ buffer' = m.bf
          /\ closure' = m.cs
    /\ pc' = pc + 1
    /\ UNCHANGED <<scn, value, trace, stale, footprint, stamp, feeder, pruned, gen>>

\* ------------------------------------------------------- external writes
\* s(value) called by the program outside any pass; the value is the
\* ordinal of the call, standing for time.time() on a clock
Write(c) ==
    /\ Idle /\ c \in Created /\ c \notin StreamCells
    /\ ExtCount(writes) < MaxWrites
    /\ LET m == Stream_call(Machine, c, ExtCount(writes) + 1, 0, 0, TRUE)
       IN /\ listeners' = m.ls
          /\ writes' = m.ws
          /\ stack' = m.st
    /\ UNCHANGED <<scn, pc, clock, value, trace, stale, footprint, stamp, aux>>

\* ------------------------------------------------------ update(), by step
SetTop(f) == [stack EXCEPT ![Len(stack)] = f]

\* if self.trace is not None: self.trace(value)
update_trace ==
    /\ ~Idle /\ Top.phase = "trace"
    /\ footprint' = IF trace[Top.cell]
                    THEN [footprint EXCEPT ![Top.cell] = Append(@, Top.val)]
                    ELSE footprint
    /\ stack' = SetTop([Top EXCEPT !.phase = NextPhase(@)])
    /\ UNCHANGED <<scn, pc, clock, value, trace, listeners, stale, writes, stamp, aux>>

\* self.value = value
update_store ==
    /\ ~Idle /\ Top.phase = "store"
    /\ value' = [value EXCEPT ![Top.cell] = Top.val]
    /\ stack' = SetTop([Top EXCEPT !.phase = NextPhase(@)])
    /\ stamp' = [stamp EXCEPT ![Top.cell] = writes[Top.id].stim]
    /\ UNCHANGED <<scn, pc, clock, trace, listeners, stale, footprint, writes, aux>>

\* self.listeners = [f for f in self.listeners if not stale]
update_prune ==
    /\ ~Idle /\ Top.phase = "prune"
    /\ listeners' = [listeners EXCEPT ![Top.cell] = Prune(@, stale)]
    /\ stack' = SetTop([Top EXCEPT !.phase = NextPhase(@)])
    /\ UNCHANGED <<scn, pc, clock, value, trace, stale, footprint, writes, stamp, aux>>

\* for f in self.listeners: f(self, value)   -- one iteration; the list
\* iterator has advanced when the body runs, and sees entries appended meanwhile
update_call ==
    /\ ~Idle /\ Top.phase = "loop" /\ Top.idx <= Len(listeners[Top.cell])
    /\ LET F == Top
           f == listeners[F.cell][F.idx]
           m0 == [Machine EXCEPT
                    !.st = SetTop([F EXCEPT !.idx = @ + 1, !.called = Append(@, f)])]
           st == writes[F.id].stim
           m == CASE f.kind = "lambda" ->
                       Stream_call(m0, f.cell, F.val + f.val, F.id, st, FALSE)
                  [] f.kind = "notify" -> notify(m0, f, F.cell, F.val, F.id, st)
                  [] f.kind = "once" ->
                       IF once_cond(f, F.val)
                       THEN [m0 EXCEPT !.st = Append(@, Frame(f.cell, f.val, f.id, TRUE))]
                       ELSE m0
                  [] f.kind = "closure" -> closure_call(m0, f, F.cell, F.val, F.id, st)
                  [] f.kind = "sched" -> tick_call(m0, f.fn, f.cell)
                  [] f.kind = "tick" -> tick_run(m0, f, F.val, Len(F.called))
       IN /\ clock' = m.ck
          /\ listeners' = m.ls
          /\ writes' = m.ws
          /\ stack' = m.st
          /\ log' = m.lg
          /\ stale' = m.sl
          /\ buffer' = m.bf
          /\ closure' = m.cs
    /\ UNCHANGED <<scn, pc, value, trace, footprint, stamp, feeder, pruned, gen>>

\* the loop is exhausted: update() returns; _once's g then sets g.stale = True
update_return ==
    /\ ~Idle /\ Top.phase = "loop" /\ Top.idx > Len(listeners[Top.cell])
    /\ stale' = IF Top.once THEN stale \cup {Top.id} ELSE stale
    /\ stack' = SubSeq(stack, 1, Len(stack) - 1)
    /\ UNCHANGED <<scn, pc, clock, value, trace, listeners, footprint, writes, stamp, aux>>

Next ==
    \/ Stream_init
    \/ listeners_append
    \/ set_trace
    \/ combine
    \/ \E c \in Cells : Write(c)
    \/ update_trace
    \/ update_store
    \/ update_prune
    \/ update_call
    \/ update_return

Spec == Init /\ [][Next]_vars

\* a step of an update() in progress: the interpreter goes on executing the
\* call until it returns
Pass == update_trace \/ update_store \/ update_prune \/ update_call \/ update_return

\* Spec with a thread that keeps running the call it is in
SpecLive == Spec /\ WF_vars(Pass)

\* ------------------------------------------- operators and tick helpers
\* Stream.listen(notify): notify(self, self.value) if the cell has a value,
\* then self.listeners.append(notify)
Stream_listen ==
    /\ Idle /\ ~Built /\ Stmt.op = "listen"
    /\ LET m0 == IF value[Stmt.s] # None
                 THEN tick_call(Machine, Stmt.f.fn, Stmt.f.cell)
                 ELSE Machine
           m == [m0 EXCEPT !.ls[Stmt.s] = Append(@, Stmt.f)]
       IN /\ listeners' = m.ls
          /\ log' = m.lg
    /\ pc' = pc + 1
    /\ UNCHANGED <<scn, clock, value, trace, stale, footprint, stack, writes, stamp,
                   feeder, pruned, gen, buffer, closure>>

\* clk(time.time()) when time.time() returns what it returned for the last tick
Write_again(c) ==
    /\ Idle /\ c \in Created /\ clock[c] = c /\ c \notin StreamCells
    /\ value[c] # None
    /\ ExtCount(writes) < MaxWrites
    /\ LET m == Stream_call(Machine, c, value[c], 0, 0, TRUE)
       IN /\ listeners' = m.ls
          /\ writes' = m.ws
          /\ stack' = m.st
    /\ UNCHANGED <<scn, pc, clock, value, trace, stale, footprint, stamp, aux>>

\* ss(s): the program writes a stream as an event
Write_stream(c, s) ==
    /\ Idle /\ c \in Created /\ c \in StreamCells
    /\ s \in Created \cap InnerCells
    /\ ExtCount(writes) < MaxWrites
    /\ LET m == Stream_call(Machine, c, Ref(s), 0, 0, TRUE)
       IN /\ listeners' = m.ls
          /\ writes' = m.ws
          /\ stack' = m.st
    /\ UNCHANGED <<scn, pc, clock, value, trace, stale, footprint, stamp, aux>>

InitOps == scn \in OpScenarios /\ Start

NextOps ==
    \/ Next
    \/ Stream_listen
    \/ \E c \in Cells : Write_again(c)
    \/ \E c, s \in Cells : Write_stream(c, s)

SpecOps == InitOps /\ [][NextOps]_vars

\* ------------------------------------------------- two threads (tmain)
\* The clock thread runs the passes; update()'s prune is two steps, the
\* comprehension that builds the new list and the assignment to self.listeners.
\* The feeder thread appends to the list object it got from clock.listeners.
NSched(lg) == Cardinality({i \in DOMAIN lg : lg[i].what = "sched"})

\* [f for f in self.listeners if not getattr(f, 'stale', False)]
prune_read ==
    /\ ~Idle /\ Top.phase = "prune"
    /\ pruned' = Prune(listeners[Top.cell], stale)
    /\ stack' = SetTop([Top EXCEPT !.phase = "assign"])
    /\ UNCHANGED <<scn, pc, clock, value, trace, listeners, stale, footprint, writes,
                   stamp, log, feeder, gen, buffer, closure>>

\* self.listeners = <the new list>
prune_assign ==
    /\ ~Idle /\ Top.phase = "assign"
    /\ listeners' = [listeners EXCEPT ![Top.cell] = pruned]
    /\ gen' = [gen EXCEPT ![Top.cell] = @ + 1]
    /\ pruned' = NoList
    /\ stack' = SetTop([Top EXCEPT !.phase = "loop"])
    /\ UNCHANGED <<scn, pc, clock, value, trace, stale, footprint, writes, stamp, log,
                   feeder, buffer, closure>>

\* feed: s(v) on a cell of the clock, up to the evaluation of
\* self.clock.listeners.append and of its argument _once(update)
feed_write(c) ==
    /\ Built /\ feeder.pc = "idle" /\ clock[c] # NoCell /\ clock[c] # c
    /\ ExtCount(writes) + NSched(log) < MaxWrites
    /\ LET id == Len(writes) + 1
           v == ExtCount(writes) + 1
       IN /\ writes' = Append(writes, [cell |-> c, val |-> v, par |-> 0, stim |-> id,
                                        ext |-> TRUE, ready |-> TRUE])
          /\ feeder' = [pc |-> "loaded", cell |-> clock[c], ref |-> gen[clock[c]],
                        f |-> Once(id, c, v)]
    /\ UNCHANGED <<scn, pc, clock, value, trace, listeners, stale, footprint, stack,
                   stamp, log, pruned, gen, buffer, closure>>

\* another thread calls next_tick(clk, fn): now = clock(), then the evaluation
\* of clock.listeners.append and of its argument
feed_next_tick(ck) ==
    /\ Built /\ feeder.pc = "idle" /\ clock[ck] = ck /\ value[ck] # None
    /\ ExtCount(writes) + NSched(log) < MaxWrites
    /\ LET id == 0 - (Len(log) + 1)
       IN /\ log' = Append(log, LogRec("sched", "next_tick", id, PassOf(stack), value[ck],
                                       Len(listeners[ck])))
          /\ feeder' = [pc |-> "loaded", cell |-> ck, ref |-> gen[ck],
                        f |-> TickOnce(id, "next_tick", value[ck])]
    /\ UNCHANGED <<scn, pc, clock, value, trace, listeners, stale, footprint, stack,
                   writes, stamp, pruned, gen, buffer, closure>>

\* list.append on the list object the feeder holds: the cell's current list,
\* or a list the cell has replaced since
feed_append ==
    /\ feeder.pc = "loaded"
    /\ listeners' = IF feeder.ref = gen[feeder.cell]
                    THEN [listeners EXCEPT ![feeder.cell] = Append(@, feeder.f)]
                    ELSE listeners
    /\ feeder' = FeederIdle
    /\ UNCHANGED <<scn, pc, clock, value, trace, stale, footprint, stack, writes, stamp,
                   log, pruned, gen, buffer, closure>>

InitThreads == scn = "tmain" /\ Start

NextThreads ==
    \/ Stream_init
    \/ combine
    \/ Write("clk")
    \/ update_trace
    \/ update_store
    \/ prune_read
    \/ prune_assign
    \/ update_call
    \/ update_return
    \/ \E c \in Cells : feed_write(c)
    \/ \E c \in Cells : feed_next_tick(c)
    \/ feed_append

SpecThreads == InitThreads /\ [][NextThreads]_vars

\* ------------------------------------- operators with state, on test clocks
\* The tests write the timestamps to the clock themselves and send events to
\* the source; the operators keep their state in closure variables.
TimeScenarios == {"stale", "stale_op", "repeat", "sequence", "diff", "diff_none",
                  "changed", "changed_op", "window"}
\* the programs whose clock is core.clock(): feed_clock writes time.time() to it
WallScenarios == {"timeout_wall", "timeout_op_wall"}
TimelyScenarios == {"delay", "delay0", "timeout", "timeout_op"} \cup WallScenarios

\* delay(t, s): buffer = []; res = Stream(s.clock);
\* s.clock.listeners.append(on_t); s.listeners.append(on_s)
delay ==
    /\ Idle /\ ~Built /\ Stmt.op = "delay"
    /\ clock' = [clock EXCEPT ![Stmt.s] = clock[Stmt.src]]
    /\ listeners' = [listeners EXCEPT
                        ![clock[Stmt.src]] = Append(@, Closure("on_t", Stmt.s, Stmt.t)),
                        ![Stmt.src] = Append(@, Closure("on_s", Stmt.s, Stmt.t))]
    /\ closure' = [closure EXCEPT !.dq = <<>>]
    /\ pc' = pc + 1
    /\ UNCHANGED <<scn, value, trace, stale, footprint, stack, writes, stamp, log, feeder,
                   pruned, gen, buffer>>

\* the cells the program sends events to, and the events it sends
Sources == IF scn \in {"timeout", "timeout_op"} \cup WallScenarios
           THEN {"s1", "s3"} ELSE {"s1"}
SendVals ==
    CASE scn \in {"timeout", "timeout_op"} \cup WallScenarios -> {1}
      [] scn = "async" -> {1, 3, 4}
      [] OTHER -> {1, 4}

Ticks == SelectSeq(writes, LAMBDA w : w.ext /\ w.cell = "clk")
Sends == SelectSeq(writes, LAMBDA w : w.ext /\ w.cell # "clk")

\* timeout(t, responds, s): buffer = [time.time()]; res = Stream(s.clock);
\* responds.listeners.append(on_respond); s.clock.listeners.append(on_clock);
\* s.listeners.append(on_s).  op.py attaches with listen, which calls the
\* closure first when the cell has a value: only the clock can have one here,
\* and on_clock does nothing on a buffer that holds the wall time
timeout ==
    /\ Idle /\ ~Built /\ Stmt.op = "timeout"
    /\ clock' = [clock EXCEPT ![Stmt.s] = clock[Stmt.src]]
    /\ LET ls1 == [listeners EXCEPT
                      ![Stmt.responds] = Append(@, Closure("on_respond", Stmt.s, Stmt.t))]
           ls2 == [ls1 EXCEPT
                      ![clock[Stmt.src]] = Append(@, Closure("on_clock", Stmt.s, Stmt.t))]
       IN listeners' = [ls2 EXCEPT ![Stmt.src] = Append(@, Closure(Stmt.on_s, Stmt.s, Stmt.t))]
    /\ closure' = [closure EXCEPT !.tb = WallTime(writes)]
    /\ pc' = pc + 1
    /\ UNCHANGED <<scn, value, trace, stale, footprint, stack, writes, stamp, log, feeder,
                   pruned, gen, buffer>>

\* a sub-stream of trace can still be made
Room == scn \in {"stale", "stale_op"} => \E i \in DOMAIN Pool : clock[Pool[i]] = NoCell

\* the steps between the timestamps the program writes: one, or one or two
\* where the operator compares timestamps
Gaps == IF scn \in (TimelyScenarios \ WallScenarios) \cup {"repeat", "sequence"}
        THEN {1, 2} ELSE {1}

\* clk(t): the next timestamp, a gap after the last; on core.clock() the wall
\* time of the call.  With fmap_async the clock
\* is core.clock's task feed_clock: the wakeup of a_res that a pass has
\* scheduled (q.put_nowait) is ahead of feed_clock's next step in the loop
Tick(d) ==
    /\ Idle /\ "clk" \in Created /\ d \in Gaps /\ closure.q = <<>>
    /\ Len(Ticks) < MaxTicks
    /\ LET t == IF scn \in WallScenarios THEN WallTime(writes) + 1
                ELSE IF value["clk"] = None THEN 1 ELSE value["clk"] + d
           m == Stream_call(Machine, "clk", t, 0, 0, TRUE)
       IN /\ listeners' = m.ls
          /\ writes' = m.ws
          /\ stack' = m.st
    /\ UNCHANGED <<scn, pc, clock, value, trace, stale, footprint, stamp, aux>>

\* s(v): the program sends an event to a source, once the graph is built
Send(c, v) ==
    /\ Idle /\ Built /\ c \in Created \cap Sources /\ Room
    /\ Len(Sends) < MaxSends
    /\ LET m == Stream_call(Machine, c, v, 0, 0, TRUE)
       IN /\ listeners' = m.ls
          /\ writes' = m.ws
          /\ stack' = m.st
    /\ UNCHANGED <<scn, pc, clock, value, trace, stale, footprint, stamp, aux>>

InitTime == scn \in TimeScenarios /\ Start

NextTime ==
    \/ Stream_init
    \/ set_trace
    \/ combine
    \/ \E d \in {1, 2} : Tick(d)
    \/ \E c \in Cells, v \in SendVals : Send(c, v)
    \/ update_trace
    \/ update_store
    \/ update_prune
    \/ update_call
    \/ update_return

SpecTime == InitTime /\ [][NextTime]_vars

\* the operators of timely.py, which attach plain closures instead of combine
InitTimely == scn \in TimelyScenarios /\ Start

NextTimely ==
    \/ Stream_init
    \/ set_trace
    \/ delay
    \/ timeout
    \/ \E d \in {1, 2} : Tick(d)
    \/ \E c \in Cells, v \in SendVals : Send(c, v)
    \/ update_trace
    \/ update_store
    \/ update_prune
    \/ update_call
    \/ update_return

SpecTimely == InitTimely /\ [][NextTimely]_vars

\* ------------------------------------------------------------ fmap_async
\* One thread runs the event loop: the clock's ticks, the program's sends and
\* the task a_res are callbacks of the loop and never overlap.
\* the doctest's transform: async for e in s: if e % 2 != 0: yield e + 1
transform(e) == IF e % 2 # 0 THEN <<e + 1>> ELSE <<>>

\* faulty variant: the queue hands out its newest item first
QueueNext_lifo(q) == Len(q)

\* q.get(): the oldest item of the queue
QueueNext(q) == 1

\* the task a_res from the item it was waiting for until it waits again:
\* async for v in fn(a_src()): res(v), a_src yielding await q.get() for ever;
\* q.get() does not suspend while the queue holds items
RECURSIVE a_res_run(_, _)
a_res_run(m, res) ==
    IF m.cs.q = <<>> THEN m
    ELSE LET i == QueueNext(m.cs.q)
             e == m.cs.q[i]
             m1 == [m EXCEPT !.cs.q = SubSeq(@, 1, i - 1) \o SubSeq(@, i + 1, Len(@)),
                             !.cs.fed = Append(@, e)]
             ys == transform(e)
             m2 == IF ys = <<>> THEN m1 ELSE Stream_call(m1, res, ys[1], 0, 0, FALSE)
         IN a_res_run(m2, res)

\* fmap_async(fn, s): res = Stream(s.clock); q = asyncio.Queue();
\* s.listeners.append(notify); asyncio.ensure_future(a_res())
fmap_async ==
    /\ Idle /\ ~Built /\ Stmt.op = "fmap_async"
    /\ clock' = [clock EXCEPT ![Stmt.s] = clock[Stmt.src]]
    /\ listeners' = [listeners EXCEPT ![Stmt.src] = Append(@, Closure("q_put", Stmt.s, 0))]
    /\ closure' = [closure EXCEPT !.q = <<>>, !.fed = <<>>]
    /\ pc' = pc + 1
    /\ UNCHANGED <<scn, value, trace, stale, footprint, stack, writes, stamp, log, feeder,
                   pruned, gen, buffer>>

\* the loop resumes the task a_res, which was waiting in q.get()
a_res ==
    /\ Idle /\ clock["s2"] # NoCell /\ closure.q # <<>>
    /\ LET m == a_res_run(Machine, "s2")
       IN /\ listeners' = m.ls
          /\ writes' = m.ws
          /\ closure' = m.cs
    /\ UNCHANGED <<scn, pc, clock, value, trace, stale, footprint, stack, stamp, log,
                   feeder, pruned, gen, buffer>>

InitAsync == scn = "async" /\ Start

NextAsync ==
    \/ Stream_init
    \/ set_trace
    \/ fmap_async
    \/ \E d \in {1, 2} : Tick(d)
    \/ \E c \in Cells, v \in SendVals : Send(c, v)
    \/ a_res
    \/ update_trace
    \/ update_store
    \/ update_prune
    \/ update_call
    \/ update_return

SpecAsync == InitAsync /\ [][NextAsync]_vars

\* ================================================================ claims
ExtWrites == SelectSeq(writes, LAMBDA w : w.ext)
Derived(c) == clock[c] # NoCell /\ clock[c] # c
OnceEntries(c) == {i \in DOMAIN listeners[c] : listeners[c][i].kind = "once"}

\* C1: breadth-first order.  Whenever a cell applies an update (its update()
\* activation is on the stack, from the hook call on) that was written by a
\* listener of a derived cell's update, that earlier update has returned: all
\* the listeners of the nearer cell have run before the farther cell starts.
C1_BreadthFirst ==
    \A i \in DOMAIN stack :
        LET P == writes[stack[i].id].par
        IN (P # 0 /\ Derived(writes[P].cell)) =>
              /\ P \in stale
              /\ \A j \in DOMAIN stack : stack[j].id # P

\* C1 witness: in test_event_order's graph, s2 (distance 2) is applying an
\* update that a listener of s1 (distance 1) wrote during a clock tick.
C1_Witness ==
    /\ scn = "order" /\ Len(stack) = 2
    /\ stack[1].cell = "clk" /\ Top.cell = "s2" /\ Top.phase = "store"
    /\ writes[Top.id].par # 0
    /\ writes[writes[Top.id].par].cell = "s1"
    /\ writes[Top.id].stim = stack[1].id

\* C4: test_event_order.  With the graph fully built, one clock write v and no
\* other write makes s3's hook see exactly <<v, v + 10>>: the short path's value
\* first; while the pass runs the hook has seen a prefix of it.
C4_DiamondTrace ==
    (/\ scn = "order"
     /\ Len(ExtWrites) = 1 /\ ExtWrites[1].cell = "clk" /\ ExtWrites[1].ready) =>
        LET v == ExtWrites[1].val
            want == <<v, v + 10>>
        IN /\ Idle => footprint["s3"] = want
           /\ \E k \in 0..2 : footprint["s3"] = SubSeq(want, 1, k)

\* C4 witness: the single tick of test_event_order has returned.
C4_Witness ==
    /\ scn = "order" /\ Idle
    /\ Len(ExtWrites) = 1 /\ ExtWrites[1].cell = "clk" /\ ExtWrites[1].ready
    /\ footprint["s3"] = <<1, 11>>

\* the listener the top activation is about to call, when it is a notify
\* closure of a combine over two distinct cells derived from one clock
AtSiblingNotify ==
    /\ ~Idle /\ Top.phase = "loop" /\ Top.idx <= Len(listeners[Top.cell])
    /\ LET f == listeners[Top.cell][Top.idx]
       IN /\ f.kind = "notify" /\ Len(f.deps) = 2 /\ f.deps[1] # f.deps[2]
          /\ Derived(f.deps[1]) /\ Derived(f.deps[2])
          /\ clock[f.deps[1]] = clock[f.deps[2]]
          /\ stack[1].cell = clock[f.deps[1]]

NotifyDeps == listeners[Top.cell][Top.idx].deps
Sibling == IF NotifyDeps[1] = Top.cell THEN NotifyDeps[2] ELSE NotifyDeps[1]

\* a one-shot update of cell c that the pass has not reached yet
Queued(c) ==
    \E i \in OnceEntries(clock[c]) :
        LET e == listeners[clock[c]][i]
        IN e.cell = c /\ e.id \notin stale /\ \A j \in DOMAIN stack : stack[j].id # e.id

Scheduled(r, c, n) ==
    {i \in OnceEntries(r) :
        listeners[r][i].cell = c /\ writes[listeners[r][i].id].stim = n}

\* the number of listener paths that lead from cell x to cell c
RECURSIVE NPaths(_, _)
RECURSIVE NPathsFrom(_, _, _)
NPathsFrom(x, c, i) ==
    IF i > Len(listeners[x]) THEN 0
    ELSE (IF listeners[x][i].kind = "once" THEN 0 ELSE NPaths(listeners[x][i].cell, c))
         + NPathsFrom(x, c, i + 1)
NPaths(x, c) == IF x = c THEN 1 ELSE NPathsFrom(x, c, 1)

Stimuli == {n \in DOMAIN writes : writes[n].ext}

\* C3 as stated: for every cell and every external stimulus a clock's listener
\* list holds at most one one-shot update of that cell.
C3_ScheduledOnce ==
    \A r \in Cells, c \in Cells, n \in Stimuli : Cardinality(Scheduled(r, c, n)) <= 1

\* C3 amended: every write to a derived cell has exactly one one-shot update, in
\* its clock's list, until it has run and is pruned; so a cell is scheduled once
\* per write, at most once per dependency path from the stimulus to it.
C3_ScheduledOncePerPath ==
    /\ \A i \in DOMAIN writes :
          LET c == writes[i].cell
              at(r) == {k \in OnceEntries(r) : listeners[r][k].id = i}
          IN Derived(c) =>
               /\ \A r \in Cells \ {clock[c]} : at(r) = {}
               /\ Cardinality(at(clock[c])) <= 1
               /\ i \notin stale => Cardinality(at(clock[c])) = 1
    /\ \A c \in Cells, n \in Stimuli :
          Cardinality({i \in DOMAIN writes : writes[i].cell = c /\ writes[i].stim = n})
             <= NPaths(writes[n].cell, c)

\* C3 witness: one clock tick of test_event_order has put two one-shot updates
\* of s3 in the clock's list, one per path (s1 -> s3 and s1 -> s2 -> s3).
C3_Witness ==
    /\ scn = "order"
    /\ \E n \in Stimuli :
          /\ writes[n].cell = "clk"
          /\ Cardinality(Scheduled("clk", "s3", n)) = 2
          /\ NPaths("clk", "s3") = 2

\* the activation of a root cell's update() whose listener loop is exhausted:
\* the write to the clock cell is about to return
ClockWriteReturns ==
    /\ Len(stack) = 1 /\ clock[Top.cell] = Top.cell
    /\ Top.phase = "loop" /\ Top.idx > Len(listeners[Top.cell])

\* C5: when a write to a clock cell returns, every write made so far to a cell
\* derived from that clock has been applied, and the clock's listener list
\* holds no one-shot update that has not run.
C5_PassDrainsQueue ==
    ClockWriteReturns =>
        /\ \A i \in OnceEntries(Top.cell) : listeners[Top.cell][i].id \in stale
        /\ \A i \in DOMAIN writes :
              (Derived(writes[i].cell) /\ clock[writes[i].cell] = Top.cell)
                 => i \in stale

\* C5 witness: a clock write returns after a pass that ran a one-shot update
\* scheduled before the pass (an external write to a derived cell) and one
\* scheduled during it.
C5_Witness ==
    /\ ClockWriteReturns
    /\ \E i, j \in OnceEntries(Top.cell) :
          /\ writes[listeners[Top.cell][i].id].ext
          /\ writes[listeners[Top.cell][j].id].stim = Top.id

\* C6, at the call: a write to a cell whose clock is another cell changes no
\* value, calls no hook, starts no update() and marks nothing stale; every list
\* keeps its entries and exactly one one-shot entry, holding the written value,
\* is added, to the clock's list.
C6_WriteStep ==
    \A i \in (Len(writes) + 1)..Len(writes') :
        LET c == writes'[i].cell
            r == clock'[c]
            at(q) == {k \in DOMAIN q : q[k].kind = "once" /\ q[k].id = i}
        IN r # c =>
             /\ value' = value /\ footprint' = footprint /\ stale' = stale
             /\ \A k \in DOMAIN stack' : stack'[k].id # i
             /\ \A x \in Cells :
                   /\ SubSeq(listeners'[x], 1, Len(listeners[x])) = listeners[x]
                   /\ x # r => at(listeners'[x]) = {}
             /\ Cardinality(at(listeners'[r])) = 1
             /\ \A k \in at(listeners'[r]) :
                   /\ k > Len(listeners[r])
                   /\ listeners'[r][k] = Once(i, c, writes'[i].val)

\* C6, at the dispatch: the update() the clock runs for a deferred write works
\* on the cell and the value of that write.
C6_AppliedCaptured ==
    \A k \in DOMAIN stack :
        LET F == stack[k]
        IN F.once =>
             /\ F.cell = writes[F.id].cell /\ F.val = writes[F.id].val
             /\ (trace[F.cell] /\ F.phase # "trace") =>
                    (footprint[F.cell] # <<>> /\ Last(footprint[F.cell]) = F.val)
             /\ F.phase \in {"prune", "loop"} => value[F.cell] = writes[F.id].val

\* C6: a write to a derived cell only appends one one-shot update to the clock's
\* list, and the clock later applies it with the value captured at the write.
C6_DeferredWrite == [][C6_WriteStep]_vars /\ []C6_AppliedCaptured

\* C6 witness: the clock is applying, two writes later, the value that was
\* written to a derived cell outside any pass.
C6_Witness ==
    /\ Len(stack) = 2 /\ Top.once /\ Top.phase = "loop"
    /\ writes[Top.id].ext /\ Derived(Top.cell)
    /\ value[Top.cell] = writes[Top.id].val
    /\ Len(writes) > Top.id + 1

\* C7: a write to a cell that is its own clock runs update() at once: the hook
\* is called with the value, then the value is stored, then stale listeners are
\* pruned, then the remaining listeners are called once each in list order; the
\* write has been applied when the call has returned.
C7_RootWriteSynchronous ==
    /\ \A k \in DOMAIN stack :
          LET F == stack[k]
              c == F.cell
              hooked == footprint[c] # <<>> /\ Last(footprint[c]) = F.val
          IN clock[c] = c =>
               /\ ~F.once /\ F.val = writes[F.id].val
               /\ F.phase = "trace" => (~hooked /\ value[c] # F.val /\ F.called = <<>>)
               /\ F.phase = "store" =>
                     ((trace[c] => hooked) /\ value[c] # F.val /\ F.called = <<>>)
               /\ F.phase = "prune" =>
                     ((trace[c] => hooked) /\ value[c] = F.val /\ F.called = <<>>)
               /\ F.phase = "loop" =>
                     /\ (trace[c] => hooked) /\ value[c] = F.val
                     /\ F.idx <= Len(listeners[c]) + 1
                     /\ F.called = SubSeq(listeners[c], 1, F.idx - 1)
                     /\ \A i \in F.idx..Len(listeners[c]) :
                           ~IsStale(listeners[c][i], stale)
    /\ Idle =>
          \A i \in DOMAIN writes :
              LET c == writes[i].cell
              IN (clock[c] = c /\ \A j \in DOMAIN writes : (j > i => writes[j].cell # c))
                    => (value[c] = writes[i].val /\ stamp[c] = i)

\* C7 witness: the second write to a hooked root cell is about to return, after
\* pruning the one-shot entries of the first pass and calling every listener.
C7_Witness ==
    /\ ClockWriteReturns /\ trace[Top.cell]
    /\ Len(footprint[Top.cell]) = 2
    /\ Len(Top.called) > 3 /\ Top.called = listeners[Top.cell]
    /\ \E i \in stale : \A k \in OnceEntries(Top.cell) : listeners[Top.cell][k].id # i

\* the dependencies of a combine statement that hold a value
Valued(deps) == {i \in DOMAIN deps : value[deps[i]] # None}

\* C8: replay on construction.  When combine(fn, deps) returns and some
\* dependency already held a value, the output cell holds fn's result for the
\* last such dependency (f(value) for a map), with no further write.
C8_ReplayOnConstruction ==
    [][(~Built /\ Stmt.op = "combine" /\ pc' = pc + 1 /\ Valued(Stmt.deps) # {}) =>
          LET n == Notify(Stmt.s, Stmt.fn, Stmt.add, Stmt.deps)
              last == CHOOSE i \in Valued(Stmt.deps) : \A j \in Valued(Stmt.deps) : j <= i
          IN value'[Stmt.s] = FnApply(n, value, value[Stmt.deps[last]])]_vars

\* the value the k-th external write leaves in cell c (None: not written yet)
RECURSIVE ValueAfter(_, _)
ValueAfter(c, k) ==
    IF k = 0 THEN None
    ELSE IF ExtWrites[k].cell = c THEN ExtWrites[k].val ELSE ValueAfter(c, k - 1)

\* C9: test_combine_deps.  With s3 = combine(sum_upstreams, [s1, s2]) built and
\* hooked, and writes made only to s1 and s2, each write has produced exactly
\* one emission of s3 by the time it returns, the sum of the dependencies'
\* values at that write, in the order of the writes.
C9_EmissionPerWrite ==
    (/\ scn = "deps" /\ Idle
     /\ \A k \in DOMAIN ExtWrites : ExtWrites[k].ready /\ ExtWrites[k].cell # "s3") =>
        footprint["s3"] =
            [k \in 1..Len(ExtWrites) |->
                sum_upstreams([c \in Cells |-> ValueAfter(c, k)], <<"s1", "s2">>)]

\* C10: the output of a combine has the dependencies' clock when they all have
\* the same one; when they have different clocks it is attached to none of
\* them: it is its own clock and applies its writes at once.
C10_CommonClockOrOrphan ==
    \A k \in 1..(pc - 1) :
        LET st == Prog(scn)[k]
            cks == IF st.op = "combine"
                   THEN {clock[st.deps[i]] : i \in DOMAIN st.deps} ELSE {}
        IN st.op = "combine" =>
              IF Cardinality(cks) = 1
              THEN clock[st.s] \in cks
              ELSE clock[st.s] = st.s /\ clock[st.s] \notin cks

\* an entry of a listener list that the feeder's append has delivered
Delivered(id) == ~(feeder.pc = "loaded" /\ feeder.f.id = id)
InList(q, id) == \E k \in DOMAIN q : q[k].id = id
Present(ck, id) ==
    \/ InList(listeners[ck], id)
    \/ \E k \in DOMAIN stack :
          stack[k].cell = ck /\ stack[k].phase = "assign" /\ InList(pruned, id)
Prints(v) == {k \in DOMAIN log : log[k].what = "print" /\ log[k].val = v}

\* C11: an event written to a derived cell by another thread, at any point of
\* a pass in flight, is never lost and never applied twice: once its append is
\* done, it is queued on the clock, being applied, or applied, and each(print)
\* has printed it at most once.
C11_InjectedAppliedOnce ==
    \A i \in DOMAIN writes :
        LET c == writes[i].cell
        IN (scn = "tmain" /\ writes[i].ext /\ clock[c] # c /\ Delivered(i)) =>
              /\ \/ Present(clock[c], i)
                 \/ i \in stale
                 \/ \E k \in DOMAIN stack : stack[k].id = i
              /\ Cardinality(Prints(writes[i].val)) <= 1

\* the runs of the scheduled function whose wrapper has the given id
Runs(id) == {k \in DOMAIN log : log[k].what = "run" /\ log[k].id = id}
SchedCalls(fn) == {k \in DOMAIN log : log[k].what = "sched" /\ log[k].fn = fn}

\* C12: a function scheduled with next_tick by another thread while the clock
\* runs a pass is never lost and never run twice: once its append is done, its
\* one-shot entry is in the clock's list until it has run, and it has run at
\* most once.
C12_NextTickNeverLost ==
    \A k \in SchedCalls("next_tick") :
        LET id == log[k].id
        IN (scn = "tmain" /\ Delivered(id)) =>
              /\ Present("clk", id) \/ id \in stale
              /\ Cardinality(Runs(id)) <= 1

\* a write to a clock cell whose pass has ended
PassOver(p) == p # 0 /\ \A k \in DOMAIN stack : stack[k].id # p

\* C13: a function scheduled with next_tick, from a listener in the middle of a
\* pass or between passes, does not run in the pass it was scheduled in nor in
\* any write whose timestamp is not greater than the clock value captured at the
\* scheduling; it runs once, and it has run when the first later clock write
\* with a greater timestamp returns.
C13_NextTickLater ==
    \A k \in SchedCalls("next_tick") :
        LET id == log[k].id
            P == log[k].pass
            now == log[k].val
        IN /\ Cardinality(Runs(id)) <= 1
           /\ \A r \in Runs(id) : r > k /\ log[r].pass # P /\ log[r].val > now
           /\ (ClockWriteReturns /\ Top.id # P /\ Top.val > now) => Runs(id) # {}

\* C13 witness: a function scheduled from a listener during a pass was skipped
\* by a later write carrying the same timestamp and has run in the write after.
C13_Witness ==
    \E k \in SchedCalls("next_tick") :
        /\ log[k].pass # 0
        /\ \E r \in Runs(log[k].id) :
              \E i \in DOMAIN writes :
                  /\ log[k].pass < i /\ i < log[r].pass
                  /\ writes[i].cell = "clk" /\ writes[i].val = log[k].val
                  /\ PassOver(i)

\* C14: a function scheduled with this_tick from inside a listener during a pass
\* runs in that same pass, after the listener that scheduled it and after every
\* entry that was in the clock's list at that moment; it has run exactly once
\* when the pass ends and never runs again.
C14_ThisTickEndOfPass ==
    \A k \in SchedCalls("this_tick") :
        LET id == log[k].id
            P == log[k].pass
        IN P # 0 =>
             /\ Cardinality(Runs(id)) <= 1
             /\ \A r \in Runs(id) : r > k /\ log[r].pass = P /\ log[r].n >= log[k].n
             /\ PassOver(P) => Cardinality(Runs(id)) = 1

\* C14 witness: two passes after the one in which a listener scheduled it, the
\* function has run once, behind the entries that were queued before it.
C14_Witness ==
    \E k \in SchedCalls("this_tick") :
        /\ log[k].pass # 0 /\ log[k].n > 4
        /\ Cardinality(Runs(log[k].id)) = 1
        /\ \E i, j \in DOMAIN writes :
              /\ log[k].pass < i /\ i < j
              /\ writes[i].cell = "clk" /\ writes[j].cell = "clk" /\ PassOver(j)

\* the exceptions raised so far; a record keeps the pass and the number of
\* writes made when it was raised
Raised == {k \in DOMAIN log : log[k].what = "raise"}

\* C15: after a combining function has raised during a pass, no later tick
\* executes a one-shot update that was written before the exception: those
\* still queued are dropped, those already applied are not applied again.
C15_AbandonedNotRetried ==
    \A r \in Raised :
        \A j \in DOMAIN stack :
            ~ (/\ stack[j].once
               /\ PassOf(stack) # log[r].pass
               /\ stack[j].id <= log[r].n)

\* the events the program has written to cell c, in order
EventsOf(c) ==
    LET q == SelectSeq(ExtWrites, LAMBDA w : w.cell = c)
    IN [k \in DOMAIN q |-> q[k].val]
IsPrefix(p, q) == Len(p) <= Len(q) /\ p = SubSeq(q, 1, Len(p))

\* every write so far was made to the source s1, after the program was built
OnlySourceEvents ==
    \A k \in DOMAIN ExtWrites : ExtWrites[k].ready /\ ExtWrites[k].cell = "s1"

\* C16, emissions: the hook of where(p, s1)'s output has seen the events of s1
\* that satisfy p, unchanged and in order: all of them once the write has
\* returned, a prefix while it runs.
C16_EmitsSatisfying ==
    (scn = "where" /\ OnlySourceEvents) =>
        LET want == SelectSeq(EventsOf("s1"), LAMBDA x : x % 2 = 0)
        IN /\ IsPrefix(footprint["s2"], want)
           /\ Idle => (footprint["s2"] = want /\ value["s2"] = IF want = <<>> THEN None ELSE Last(want))

\* C16, suppression: the call of where's closure for an event that does not
\* satisfy p changes no value, calls no hook, makes no write and appends no entry
\* to any list.
C16_NoneStep ==
    (/\ scn = "where" /\ ~Idle /\ Top.phase = "loop"
     /\ Top.idx <= Len(listeners[Top.cell])
     /\ listeners[Top.cell][Top.idx].fn = "where" /\ Top.val % 2 # 0
     /\ stack' # stack) =>
        /\ value' = value /\ footprint' = footprint /\ listeners' = listeners
        /\ writes' = writes /\ stale' = stale /\ Len(stack') = Len(stack)

\* C16: where(p, s) emits exactly the source events for which p holds, unchanged
\* and in source order; an event for which the combining function returns None
\* leaves the output untouched and schedules nothing.
C16_Where == []C16_EmitsSatisfying /\ [][C16_NoneStep]_vars

\* C16 witness: the source has emitted 1, 2, 3; the output's hook has seen 2
\* only and the output still holds 2 after the event 3.
C16_Witness ==
    /\ scn = "where" /\ Idle /\ OnlySourceEvents
    /\ EventsOf("s1") = <<1, 2, 3>>
    /\ footprint["s2"] = <<2>> /\ value["s2"] = 2 /\ value["s1"] = 3

\* every write so far was made to s1 or to the clock, after the program was built
OnlySourceOrClock ==
    \A k \in DOMAIN ExtWrites : ExtWrites[k].ready /\ ExtWrites[k].cell \in {"s1", "clk"}

\* C17: with s2 = scan(+, 10, s1), between passes the hook of s2 has seen, for
\* the events e1..en that s1 has emitted, the left folds 10 + e1, 10 + e1 + e2,
\* ..., however the events were spread over the ticks.
C17_ScanFold ==
    (scn = "scan" /\ OnlySourceOrClock /\ Idle) =>
        footprint["s2"] =
            [k \in 1..Len(footprint["s1"]) |-> 10 + SumSeq(SubSeq(footprint["s1"], 1, k))]

\* C18: test_merge_topic.  With s3 = merge([s1, s2], topics) built and hooked and
\* writes made only to the sources, when a write has returned the hook of s3 has
\* seen every event written so far, once, in the order of the writes, each as
\* (topic of its source, value).
C18_MergeArrivalOrder ==
    (/\ scn = "merge" /\ Idle
     /\ \A k \in DOMAIN ExtWrites : ExtWrites[k].ready /\ ExtWrites[k].cell # "s3") =>
        footprint["s3"] =
            [k \in 1..Len(ExtWrites) |->
                Pair(Topics[Index(<<"s1", "s2">>, ExtWrites[k].cell)], ExtWrites[k].val)]

\* the first k writes of the program: the events written to an inner stream
\* after that stream was written to the stream of streams s3
RECURSIVE Forwarded(_)
Forwarded(k) ==
    IF k = 0 THEN <<>>
    ELSE LET w == ExtWrites[k]
         IN IF /\ w.cell \in InnerCells
               /\ \E j \in 1..(k - 1) :
                     ExtWrites[j].cell = "s3" /\ ExtWrites[j].val = Ref(w.cell)
            THEN Append(Forwarded(k - 1), w.val)
            ELSE Forwarded(k - 1)

\* the program wrote, after construction, only events to the inner streams and
\* inner streams to s3, each inner stream at most once
FlattenWrites ==
    /\ \A k \in DOMAIN ExtWrites :
          ExtWrites[k].ready /\ ExtWrites[k].cell \in InnerCells \cup {"s3"}
    /\ \A j, k \in DOMAIN ExtWrites :
          (j # k /\ ExtWrites[j].cell = "s3" /\ ExtWrites[k].cell = "s3")
             => ExtWrites[j].val # ExtWrites[k].val

\* C19: flatten's doctest graph.  When a write has returned, the hook of
\* s4 = flatten(s3) has seen every event of every inner stream that s3 has
\* delivered, once, in the order the events were written.
C19_FlattenRepublishes ==
    (scn = "flatten" /\ Idle /\ FlattenWrites) =>
        footprint["s4"] = Forwarded(Len(ExtWrites))

\* the keys of the first k events of s1, each at its first occurrence
RECURSIVE NewKeys(_)
NewKeys(k) ==
    IF k = 0 THEN <<>>
    ELSE LET e == EventsOf("s1")[k]
         IN IF \E j \in 1..(k - 1) : EventsOf("s1")[j] % 2 = e % 2
            THEN NewKeys(k - 1)
            ELSE Append(NewKeys(k - 1), e % 2)

\* the values written to cell c so far, in order
PushedTo(c) ==
    LET q == SelectSeq(writes, LAMBDA w : w.cell = c)
    IN [k \in DOMAIN q |-> q[k].val]

\* C20, at the emission: when the outer stream applies an event, that event is a
\* sub-stream, made on the source's clock, whose value is the source event
\* that created it.
C20_SubHoldsEvent ==
    \A j \in DOMAIN stack :
        LET F == stack[j]
        IN (scn = "trace" /\ OnlySourceEvents /\ F.cell = "s2") =>
              /\ IsRef(F.val) /\ clock[Deref(F.val)] = clock["s1"]
              /\ value[Deref(F.val)] = writes[writes[F.id].par].val
              /\ buffer[value[Deref(F.val)] % 2] = Deref(F.val)

\* C20: trace(key_fn, stale, s1) with no key gone stale.  When a write to s1
\* has returned, the outer stream has emitted one sub-stream per key, in the
\* order the keys first occurred, and each sub-stream has been given exactly the
\* events of its key, in order, the first of them included; an event of a known
\* key made no outer emission.
C20_TraceByKey ==
    /\ C20_SubHoldsEvent
    /\ (scn = "trace" /\ OnlySourceEvents /\ Idle) =>
          LET nk == NewKeys(Len(EventsOf("s1")))
          IN /\ footprint["s2"] = [i \in DOMAIN nk |-> Ref(buffer[nk[i]])]
             /\ \A key \in Keys :
                   LET es == SelectSeq(EventsOf("s1"), LAMBDA x : x % 2 = key)
                   IN IF es = <<>> THEN buffer[key] = NoCell
                      ELSE /\ buffer[key] # NoCell
                           /\ PushedTo(buffer[key]) = es
                           /\ value[buffer[key]] = Last(es)

\* C20 witness: the events 1, 2, 3 made two sub-streams; the third event went
\* into the sub-stream of the first and the outer stream emitted twice.
C20_Witness ==
    /\ scn = "trace" /\ OnlySourceEvents /\ Idle
    /\ EventsOf("s1") = <<1, 2, 3>>
    /\ Len(footprint["s2"]) = 2
    /\ buffer[1] # NoCell /\ buffer[0] # NoCell /\ buffer[0] # buffer[1]
    /\ value[buffer[1]] = 3 /\ value[buffer[0]] = 2

\* the events sent to cell c so far, in order
SentTo(c) ==
    LET q == SelectSeq(Sends, LAMBDA w : w.cell = c)
    IN [k \in DOMAIN q |-> q[k].val]

\* one sub-stream emitted per event, all distinct, the i-th written the i-th
\* event and nothing else, and no call has raised
EachEventOwnSub ==
    LET es == SentTo("s1")
        fp == footprint["s2"]
    IN /\ Raised = {}
       /\ Len(fp) = Len(es)
       /\ \A i \in DOMAIN fp :
             /\ IsRef(fp[i])
             /\ PushedTo(Deref(fp[i])) = <<es[i]>>
             /\ \A j \in DOMAIN fp : j # i => fp[j] # fp[i]

\* C21: trace(key_fn, 0, s1) over a source that is its own clock, the wall clock
\* advancing between the events.  When a send has returned, no call has raised,
\* the outer stream has emitted one sub-stream per event, all distinct, and
\* the i-th of them has been written the i-th event and nothing else: the
\* earlier sub-streams were evicted and got no further event.
C21_StaleEvictsAll ==
    (scn \in {"stale", "stale_op"} /\ Idle) => EachEventOwnSub

\* C21 for unary.py's trace alone, which evicts the stale keys themselves
C21_StaleEvictsAllUnary ==
    (scn = "stale" /\ Idle) => EachEventOwnSub

\* the tick that applied the event written as writes[p]: the first clock write
\* after it (0: none yet)
AppliedAt(p) ==
    IF \E j \in DOMAIN writes : j > p /\ writes[j].ext /\ writes[j].cell = "clk"
    THEN CHOOSE j \in DOMAIN writes :
            /\ j > p /\ writes[j].ext /\ writes[j].cell = "clk"
            /\ \A i \in (p + 1)..(j - 1) : ~(writes[i].ext /\ writes[i].cell = "clk")
    ELSE 0

\* the source events that a tick after the one that applied them, with a
\* timestamp at least t later, has followed
Due(t) ==
    LET ripe(w) == /\ w.ext /\ w.cell = "s1" /\ AppliedAt(w.stim) # 0
                   /\ \E j \in DOMAIN writes :
                         /\ j > AppliedAt(w.stim) /\ writes[j].ext /\ writes[j].cell = "clk"
                         /\ writes[j].val - writes[AppliedAt(w.stim)].val >= t
        q == SelectSeq(writes, ripe)
    IN [k \in DOMAIN q |-> q[k].val]

DelayT == IF scn = "delay0" THEN 0 ELSE 2

\* C22: s2 = delay(t, s1), t = 2 and t = 0.  Between passes the hook of s2 has
\* seen exactly the source events that are due, unchanged and in source
\* order: those applied in a tick that a later tick, at least t later by its
\* timestamp, has followed.
C22_DelayEmitsEvents ==
    (scn \in {"delay", "delay0"} /\ Idle) => footprint["s2"] = Due(DelayT)

\* C22, the times alone: as many emissions as there are due events
C22_DelayEmitsWhenDue ==
    (scn \in {"delay", "delay0"} /\ Idle) => Len(footprint["s2"]) = Len(Due(DelayT))

TimeoutT == 1

\* the source and respond events that the k-th tick applied, in order
AppliedIn(k) ==
    SelectSeq(writes, LAMBDA w : /\ w.ext /\ w.cell \in {"s1", "s3"}
                                 /\ AppliedAt(w.stim) = Ticks[k].stim)

\* What the claim expects of the first k ticks.  arm: the timestamp of the tick
\* of the last source event that no respond and no emission has followed (None:
\* disarmed); out: the emissions.  A tick emits its timestamp iff the timeout is
\* armed and the timestamp exceeds arm by more than T; the events the tick
\* applies then arm (source) or disarm (respond) it, the last one deciding.
RECURSIVE TimeoutRun(_)
TimeoutRun(k) ==
    IF k = 0 THEN [arm |-> None, out |-> <<>>]
    ELSE LET prev == TimeoutRun(k - 1)
             ts == Ticks[k].val
             fired == prev.arm # None /\ ts - prev.arm > TimeoutT
             evs == AppliedIn(k)
         IN [arm |-> IF evs # <<>>
                     THEN (IF Last(evs).cell = "s1" THEN ts ELSE None)
                     ELSE (IF fired THEN None ELSE prev.arm),
             out |-> IF fired THEN Append(prev.out, ts) ELSE prev.out]

\* C23: s2 = timeout(T, s3, s1).  Between passes the hook of s2 has seen
\* exactly the timestamps of the ticks that found the timeout armed for more
\* than T: once per source event that no respond followed, nothing after a
\* source event and a respond applied in the same tick, nothing again after an
\* emission until another source event.
C23_TimeoutFiresOnce ==
    (scn \in {"timeout", "timeout_op"} /\ Idle /\ Built) =>
        footprint["s2"] = TimeoutRun(Len(Ticks)).out

\* C23 for timely.py's timeout alone, which stores the clock's timestamp
C23_TimeoutFiresOnceTimely ==
    (scn = "timeout" /\ Idle /\ Built) => footprint["s2"] = TimeoutRun(Len(Ticks)).out

\* the operator was constructed before the clock's first tick, and the
\* timestamps written to the clock so far
FreshClock == \A k \in DOMAIN Ticks : Ticks[k].ready
TickTimes == [k \in DOMAIN Ticks |-> Ticks[k].val]

\* the timestamps among the first k that are the first one or at least
\* interval greater than the last one kept
RECURSIVE Paced(_, _, _)
Paced(ts, k, interval) ==
    IF k = 0 THEN <<>>
    ELSE LET prev == Paced(ts, k - 1, interval)
         IN IF prev = <<>> \/ ts[k] - Last(prev) >= interval
            THEN Append(prev, ts[k]) ELSE prev

RepeatInterval == 2

\* C24: s2 = repeat(2, clk) on a clock that had not ticked.  When a tick has
\* returned the hook of s2 has seen the first timestamp and then exactly
\* those at least the interval greater than the last one emitted.
C24_RepeatPaced ==
    (scn = "repeat" /\ FreshClock /\ Idle) =>
        footprint["s2"] = Paced(TickTimes, Len(TickTimes), RepeatInterval)

\* C24 witness: the timestamps 1, 2, 3 have emitted 1 and 3 and skipped 2.
C24_Witness ==
    /\ scn = "repeat" /\ FreshClock /\ Idle
    /\ TickTimes = <<1, 2, 3>> /\ footprint["s2"] = <<1, 3>>

SequenceInterval == 2

\* C25: s2 = sequence(2, iter(range(42, 46, 2)), clk) on a clock that had not
\* ticked.  The iterator is pulled on the first tick and on every tick at least
\* the interval after the tick of the previous pull; when a tick has returned
\* the hook of s2 has seen one item per pull, in the iterator's order, as long
\* as there were items.  No call raises, and after the last item the ticks
\* leave the output's value as it is.
C25_SequenceDrains ==
    (scn = "sequence" /\ FreshClock) =>
        LET pulls == Len(Paced(TickTimes, Len(TickTimes), SequenceInterval))
            n == IF pulls < Len(Items) THEN pulls ELSE Len(Items)
        IN /\ Raised = {}
           /\ Idle => /\ footprint["s2"] = SubSeq(Items, 1, n)
                      /\ value["s2"] = IF n = 0 THEN None ELSE Items[n]

\* C25 witness: three pulls on an iterator of two items; the third tick has
\* returned and emitted nothing.
C25_Witness ==
    /\ scn = "sequence" /\ FreshClock /\ Idle
    /\ TickTimes = <<1, 3, 5>>
    /\ footprint["s2"] = <<42, 44>> /\ value["s2"] = 44
    /\ closure.sb = 5 /\ closure.it = 2

\* the events of s1 that a tick has applied, in order
AppliedEvents ==
    LET q == SelectSeq(writes, LAMBDA w : w.ext /\ w.cell = "s1" /\ AppliedAt(w.stim) # 0)
    IN [k \in DOMAIN q |-> q[k].val]

\* fn(previous, current) for each event, init standing before the first; with
\* init = None the first event itself
Diffs(es, init) ==
    [k \in DOMAIN es |-> IF k = 1
                          THEN (IF init = None THEN es[1] ELSE es[1] - init)
                          ELSE es[k] - es[k - 1]]

\* C26: s2 = diff(lambda x, y: y - x, init, s1), init = 0 and init = None, s1
\* on a clock.  When a tick has returned the hook of s2 has seen fn(previous
\* event, event) for every event applied so far, the first one against init
\* or, with init = None, unchanged.
C26_DiffPairs ==
    (scn \in {"diff", "diff_none"} /\ Idle) =>
        footprint["s2"] = Diffs(AppliedEvents, IF scn = "diff" THEN 0 ELSE None)

\* C26 with a seed: the same statement for init = 0 alone
C26_DiffSeeded ==
    (scn = "diff" /\ Idle) => footprint["s2"] = Diffs(AppliedEvents, 0)

\* the first of the events es[1..k] and every one that its predecessor in es
\* is not equal to, by y - x <= 1
RECURSIVE Changes(_, _)
Changes(es, k) ==
    IF k = 0 THEN <<>>
    ELSE IF k = 1 \/ ~(es[k] - es[k - 1] <= 1)
         THEN Append(Changes(es, k - 1), es[k])
         ELSE Changes(es, k - 1)

\* C27: s2 = changed(lambda x, y: y - x <= 1, s1), s1 on a clock.  When a tick
\* has returned the hook of s2 has seen the first event applied and then
\* exactly the events that eq_fn finds different from the event applied just
\* before them, emitted or not.
C27_ChangedEmits ==
    (scn \in {"changed", "changed_op"} /\ Idle) =>
        footprint["s2"] = Changes(AppliedEvents, Len(AppliedEvents))

\* C27 for unary.py's changed alone, which tests last is None before eq_fn
C27_ChangedEmitsUnary ==
    (scn = "changed" /\ Idle) => footprint["s2"] = Changes(AppliedEvents, Len(AppliedEvents))

WindowN == 2

\* C28: s2 = window(2, s1), s1 on a clock.  When a tick has returned the hook
\* of s2 has seen, for the k-th event applied, the list of the last min(k, 2)
\* events in arrival order.
C28_WindowLastN ==
    (scn = "window" /\ Idle) =>
        LET es == AppliedEvents
        IN footprint["s2"] =
              [k \in DOMAIN es |->
                  ListVal(SubSeq(es, IF k <= WindowN THEN 1 ELSE k - WindowN + 1, k))]

\* C28 witness: three events on a window of two; the third list has dropped
\* the oldest event.
C28_Witness ==
    /\ scn = "window" /\ Idle
    /\ AppliedEvents = <<1, 4, 1>>
    /\ footprint["s2"] = <<1, 14, 41>>
    /\ closure.win = <<4, 1>>

\* what the doctest's transform yields for the items es, in order
RECURSIVE OddPlusOne(_)
OddPlusOne(es) ==
    IF es = <<>> THEN <<>>
    ELSE LET rest == OddPlusOne(SubSeq(es, 1, Len(es) - 1))
         IN IF Last(es) % 2 = 1 THEN Append(rest, Last(es) + 1) ELSE rest

DerivedWrites == {i \in DOMAIN writes : Derived(writes[i].cell)}

\* the one-shot update of write i has neither run nor started
Pending(i) == i \notin stale /\ \A n \in DOMAIN stack : stack[n].id # i

\* a write that has not been applied sits exactly once in its clock's list, at
\* a place the iterator of a pass in progress of that clock has not gone by
C30_Queued ==
    \A i \in DerivedWrites :
        LET r == clock[writes[i].cell]
            at == {k \in OnceEntries(r) : listeners[r][k].id = i}
        IN Pending(i) =>
             /\ Cardinality(at) = 1
             /\ \A k \in at, n \in DOMAIN stack : stack[n].cell = r => k >= stack[n].idx

\* a step that invokes a one-shot update: it is its clock's pass that invokes
\* it, it has not run or started before, and every earlier write to a cell of
\* the same clock has been applied
C30_Dispatch ==
    (Len(stack') = Len(stack) + 1 /\ stack'[Len(stack')].once) =>
        LET i == stack'[Len(stack')].id
        IN /\ i \in DerivedWrites
           /\ Pending(i)
           /\ Top.cell = clock[writes[i].cell]
           /\ \A j \in DerivedWrites :
                 (j < i /\ clock[writes[j].cell] = clock[writes[i].cell]) => j \in stale

\* C30: single thread, no listener writes to the clock cell, none raises.  Every
\* write of a value to a derived cell is applied exactly once: until then its
\* one-shot update waits in its clock's list ahead of the iterator of the pass
\* of that clock in progress, so that pass applies it, or the next pass when
\* none is in progress; updates are invoked in the order of the writes; and an
\* update that has run or is running is never invoked again.
C30_AppliedOnceInOrder == [][C30_Dispatch]_vars /\ []C30_Queued

\* C30 witness: a second pass of a clock has exhausted its list; a write made
\* outside any pass was applied by the first pass and has been pruned, and two
\* writes issued during the second pass have been applied by it.
C30_Witness ==
    /\ ClockWriteReturns
    /\ \E q \in DOMAIN writes, i, j1, j2 \in DerivedWrites \cap stale :
          /\ writes[q].cell = Top.cell /\ q < Top.id
          /\ clock[writes[i].cell] = Top.cell /\ writes[i].ext /\ i < q
          /\ \A k \in OnceEntries(Top.cell) : listeners[Top.cell][k].id # i
          /\ j1 < j2
          /\ writes[j1].stim = Top.id /\ writes[j2].stim = Top.id
          /\ clock[writes[j1].cell] = Top.cell /\ clock[writes[j2].cell] = Top.cell


\* ------------------------------------------------------------------ C31
\* the tick whose pass applied the write i to a cell of the clock: the first
\* write to the clock made after it
AppliedBy(i) ==
    CHOOSE p \in DOMAIN writes :
        /\ p > i /\ writes[p].cell = "clk"
        /\ \A q \in DOMAIN writes : (q > i /\ writes[q].cell = "clk") => p <= q

\* a step in which on_clock emits, res(res.clock()): a source event has been
\* applied, after every respond event applied so far, and not before the tick
\* of any earlier emission
C31_Emits ==
    \A e \in (Len(writes) + 1)..Len(writes') :
        writes'[e].cell = "s2" =>
            \E i \in stale :
                /\ writes[i].cell = "s1"
                /\ \A j \in stale : writes[j].cell = "s3" => j < i
                /\ \A k \in DOMAIN writes :
                      writes[k].cell = "s2" => writes[k].par <= AppliedBy(i)

\* C31: s2 = timeout(T, s3, s1).  Whenever timeout emits, a source event has
\* been applied that no applied respond event and no emission has followed.
C31_EmitsAfterSource == [][C31_Emits]_vars

\* C31 on a clock whose timestamps the program writes (1, 2, ...)
C31_EmitsAfterSourceCounted == [][scn \notin WallScenarios => C31_Emits]_vars


\* ------------------------------------------------------------------ C32
\* C32: on the graphs of Spec, where every listener writes to a cell farther
\* from the clock than its own and none writes to the clock, a write to a
\* clock cell returns: the update() activations it starts all end.
C32_WriteReturns == (~Idle) ~> Idle

\* C32 witness: the second write to the clock of test_event_order's graph has
\* returned; its pass ran four one-shot updates (s1, s2, and s3 once per path).
C32_Witness ==
    /\ scn = "order" /\ Idle /\ Built
    /\ \E p \in DOMAIN writes :
          /\ writes[p].cell = "clk"
          /\ \E q \in 1..(p - 1) : writes[q].cell = "clk"
          /\ Cardinality({i \in DerivedWrites \cap stale : writes[i].stim = p}) = 4

====
